---- MODULE Spec2Model ----
(***************************************************************************)
(* A model of the interface checker of the Cadence semantic front end      *)
(* (declareInterfaceType, declareInterfaceMembers,                         *)
(* VisitInterfaceDeclaration, checkInterfaceConformance,                   *)
(* checkDuplicateInterfaceMembers, checkInterfaceFunctions), of the access *)
(* model of runtime/ast/access.go, of CapConsMigration.Migrate of          *)
(* runtime/capcons.go, of IssueAccountCapabilities of                      *)
(* migrations/capcons/storagecapmigration.go and of prepareValue of        *)
(* tools/storage-explorer/value.go.                                        *)
(*                                                                         *)
(* The specifications of the module:                                       *)
(*   Spec          the conformance fold of one interface, over members     *)
(*   SpecNested    the same fold over nested types                         *)
(*   SpecKinds     the same fold over conformances of either kind          *)
(*   SpecAccess    the permissiveness comparison of two Access values      *)
(*   SpecFunctions checkInterfaceFunctions over a list of functions        *)
(*   SpecLifecycle the three passes over a declaration tree                *)
(*   SpecMigration Migrate over an address list                            *)
(*   SpecSiblings  VisitInterfaceDeclaration on two interfaces in turn     *)
(*   SpecIssue     a sequence of IssueAccountCapabilities calls            *)
(*   SpecPrepare   prepareValue on a composite value                       *)
(* Each leaves the variables of the others at their initial values.        *)
(***************************************************************************)
EXTENDS Integers, Sequences, FiniteSets, TLC

VARIABLES
    \* ---- conformance checking (VisitInterfaceDeclaration) ----
    interfaceType,      \* the InterfaceType of the declaration being checked
    conformances,       \* what ForeachDistinct yields, in processing order
    visitPc,            \* position inside VisitInterfaceDeclaration
    confIndex,          \* number of conformances already folded in
    inheritedMembers,   \* map[string]*Member of VisitInterfaceDeclaration
    inheritedTypes,     \* map[string]Type of VisitInterfaceDeclaration
    diagnostics,        \* what checker.report has received, in order
    dupCalls,           \* the calls of checkDuplicateInterfaceMembers, in order
    interfaceVisits,    \* the interfaces VisitInterfaceDeclaration is called on
    \* ---- access comparison ----
    accessA,            \* the receiver of IsLessPermissiveThan
    accessB,            \* its argument
    accessPc,           \* "call" before the comparison, "returned" after
    accessResult,       \* the outcome of the comparison
    \* ---- checkInterfaceFunctions ----
    functions,          \* the []*ast.FunctionDeclaration argument
    containerKind,      \* the declarationKind argument
    funcIndex,          \* number of functions already checked
    funcReports,        \* what checker.report has received, in order
    bodyChecks,         \* the calls of visitFunctionDeclaration, in order
    valueScopeDepth,    \* depth of the checker's value-scope stack
    \* ---- the three passes over one declaration tree ----
    rootDeclaration,    \* the top-level *ast.InterfaceDeclaration
    checker,            \* the Checker: elaboration, scopes, reports, fault
    passCalls,          \* the passes invoked on the declaration, in order
    \* ---- CapConsMigration.Migrate ----
    addressIterator,    \* the AddressSliceIterator: Addresses and index
    migratePc,          \* position inside Migrate
    capabilityIDs,      \* m.capabilityIDs
    storage,            \* the accounts' storage maps
    nextCapabilityID,   \* what the account ID generator hands out next
    migrationReports,   \* what the reporter has received, in order
    addressVisits,      \* the per-account migrations performed, in order
    \* ---- IssueAccountCapabilities ----
    issueStorage,               \* the accounts' storage-domain maps
    issueCalls,                 \* the calls made: address and capabilities
    issueIndex,                 \* number of calls already returned
    capabilityIndex,            \* capabilities of the current call passed
    typedCapabilityMapping,     \* the PathTypeCapabilityMapping argument
    untypedCapabilityMapping,   \* the PathCapabilityMapping argument
    issuedControllers,          \* the controllers issued, in order
    issueReports,               \* what the reporter has received, in order
    issueFault,                 \* "none", or the panic that ended the calls
    \* ---- prepareValue ----
    prepareInput,       \* the interpreter.Value argument
    preparePc,          \* position of the call
    prepareResult       \* the Value returned

confVars == <<interfaceType, conformances, visitPc, confIndex,
              inheritedMembers, inheritedTypes, diagnostics, dupCalls,
              interfaceVisits>>
accVars == <<accessA, accessB, accessPc, accessResult>>
funVars == <<functions, containerKind, funcIndex, funcReports, bodyChecks, valueScopeDepth>>
lifeVars == <<rootDeclaration, checker, passCalls>>
migVars == <<addressIterator, migratePc, capabilityIDs, storage,
             nextCapabilityID, migrationReports, addressVisits>>
issueVars == <<issueStorage, issueCalls, issueIndex, capabilityIndex,
               typedCapabilityMapping, untypedCapabilityMapping,
               issuedControllers, issueReports, issueFault>>
prepVars == <<prepareInput, preparePc, prepareResult>>
vars == <<confVars, accVars, funVars, lifeVars, migVars, issueVars, prepVars>>

(***************************************************************************)
(* Bounds of the model.                                                    *)
(***************************************************************************)
MaxConformances == 3
MaxEntitlements == 2
MaxFunctions == 2
MaxStatements == 1
MaxConditions == 1
MaxDeclarations == 3
MaxAddresses == 3
MaxCapabilities == 3
MaxFields == 3

(***************************************************************************)
(* Generic helpers on maps (functions with a finite domain).               *)
(***************************************************************************)
EmptyMap == [n \in {} |-> 0]

MapSet(m, k, v) == [n \in (DOMAIN m) \cup {k} |-> IF n = k THEN v ELSE m[n]]

\* The keys of map m in the iteration order given by the sequence order.
KeysInOrder(m, order) == SelectSeq(order, LAMBDA n : n \in DOMAIN m)

\* The number of elements of sequence s that satisfy P.
CountSeq(s, P(_)) == Len(SelectSeq(s, P))

(***************************************************************************)
(* Members and interface types.                                            *)
(***************************************************************************)
NoName == ""
SelfId == 0

\* The abstract signatures the collaborator memberSatisfied compares.
Signatures == {"s1", "s2"}
MemberNames == {"f"}
MemberNameOrder == <<"f">>
NestedTypeNames == {"N"}
NestedTypeNameOrder == <<"N">>
CompositeKinds == {"structure", "resource"}

FunctionShapes ==
    [DeclarationKind : {"function"}, sig : Signatures,
     HasImplementation : BOOLEAN, HasConditions : BOOLEAN]

FieldShapes ==
    [DeclarationKind : {"field"}, sig : {"s1"},
     HasImplementation : {FALSE}, HasConditions : {FALSE}]

MemberShapes == FunctionShapes \cup FieldShapes

Member(container, name, shape) ==
    [Identifier |-> name,
     ContainerType |-> container,
     DeclarationKind |-> shape.DeclarationKind,
     sig |-> shape.sig,
     HasImplementation |-> shape.HasImplementation,
     HasConditions |-> shape.HasConditions]

\* Every map from some of the names to one of the shapes.
ShapeMaps(names, shapes) == UNION { [S -> shapes] : S \in SUBSET names }

\* The Members of the interface with identity id, its members shaped by sm.
MembersOf(id, sm) == [n \in DOMAIN sm |-> Member(id, n, sm[n])]

\* A nested type: whether it is a CompositeKindedType, and if so which.
NestedTypeShapes ==
    [compositeKinded : BOOLEAN, isInterface : BOOLEAN, CompositeKind : {"resource"}]

NestedType(container, name, shape) ==
    [container |-> container,
     name |-> name,
     compositeKinded |-> shape.compositeKinded,
     isInterface |-> shape.isInterface,
     CompositeKind |-> shape.CompositeKind]

NestedTypesOf(id, sm) == [n \in DOMAIN sm |-> NestedType(id, n, sm[n])]

InterfaceType(id, kind, members, nested) ==
    [id |-> id, CompositeKind |-> kind, Members |-> members, NestedTypes |-> nested]

(***************************************************************************)
(* Diagnostics.                                                            *)
(***************************************************************************)
\* The source range of a declaration's identifier (member = NoName) or of
\* the identifier of one of its members.
IdentifierRange(declaration, member) ==
    [declaration |-> declaration, member |-> member]

InterfaceMemberConflictError(it, conflicting, name, kind, conflictingKind, range) ==
    [error |-> "InterfaceMemberConflictError",
     InterfaceType |-> it,
     ConflictingInterfaceType |-> conflicting,
     MemberName |-> name,
     MemberKind |-> kind,
     ConflictingMemberKind |-> conflictingKind,
     Range |-> range]

CompositeKindMismatchError(expected, actual, range) ==
    [error |-> "CompositeKindMismatchError",
     InterfaceType |-> SelfId,
     ConflictingInterfaceType |-> SelfId,
     MemberName |-> NoName,
     MemberKind |-> expected,
     ConflictingMemberKind |-> actual,
     Range |-> range]

(***************************************************************************)
(* Collaborators of the conformance checker.                               *)
(***************************************************************************)
\* memberSatisfied: the structural equality of two members' signatures
\* (parameter and return types, and declaration kind).
memberSatisfied(it, interfaceMember, conflictingMember) ==
    /\ interfaceMember.DeclarationKind = conflictingMember.DeclarationKind
    /\ interfaceMember.sig = conflictingMember.sig

\* checkConformanceKindMatch: reports a kind mismatch, never stops the check.
checkConformanceKindMatch(it, conformance) ==
    IF conformance.CompositeKind = it.CompositeKind
    THEN <<>>
    ELSE << CompositeKindMismatchError(conformance.CompositeKind, it.CompositeKind,
                                       IdentifierRange(it.id, NoName)) >>

(***************************************************************************)
(* checkDuplicateInterfaceMembers: the diagnostics one application of the  *)
(* duplicate-member rule reports.                                          *)
(***************************************************************************)
reportMemberConflictError(it, interfaceMember, conflictingIt, conflictingMember, range) ==
    InterfaceMemberConflictError(it, conflictingIt,
                                 interfaceMember.Identifier,
                                 interfaceMember.DeclarationKind,
                                 conflictingMember.DeclarationKind,
                                 range)

\* The mutation that tests the flags of the first member only.
checkDuplicateInterfaceMembers_OwnFlagsOnly(it, interfaceMember, conflictingIt, conflictingMember, range) ==
    IF ~memberSatisfied(it, interfaceMember, conflictingMember)
    THEN << reportMemberConflictError(it, interfaceMember, conflictingIt,
                                      conflictingMember, range) >>
    ELSE IF interfaceMember.HasConditions \/ interfaceMember.HasImplementation
         THEN << reportMemberConflictError(it, interfaceMember, conflictingIt,
                                           conflictingMember, range) >>
         ELSE <<>>

\* The mutation that omits the return after the first report.
checkDuplicateInterfaceMembers_NoReturn(it, interfaceMember, conflictingIt, conflictingMember, range) ==
    (IF ~memberSatisfied(it, interfaceMember, conflictingMember)
     THEN << reportMemberConflictError(it, interfaceMember, conflictingIt,
                                       conflictingMember, range) >>
     ELSE <<>>)
    \o
    (IF \/ interfaceMember.HasConditions
        \/ interfaceMember.HasImplementation
        \/ conflictingMember.HasConditions
        \/ conflictingMember.HasImplementation
     THEN << reportMemberConflictError(it, interfaceMember, conflictingIt,
                                       conflictingMember, range) >>
     ELSE <<>>)

\* The mutation that inverts the signature test.
checkDuplicateInterfaceMembers_Inverted(it, interfaceMember, conflictingIt, conflictingMember, range) ==
    IF memberSatisfied(it, interfaceMember, conflictingMember)
    THEN << reportMemberConflictError(it, interfaceMember, conflictingIt,
                                      conflictingMember, range) >>
    ELSE IF \/ interfaceMember.HasConditions
            \/ interfaceMember.HasImplementation
            \/ conflictingMember.HasConditions
            \/ conflictingMember.HasImplementation
         THEN << reportMemberConflictError(it, interfaceMember, conflictingIt,
                                           conflictingMember, range) >>
         ELSE <<>>

\* The mutation that looks at the flags of the conflicting member only.
checkDuplicateInterfaceMembers_ConflictingFlagsOnly(it, interfaceMember, conflictingIt, conflictingMember, range) ==
    IF ~memberSatisfied(it, interfaceMember, conflictingMember)
    THEN << reportMemberConflictError(it, interfaceMember, conflictingIt,
                                      conflictingMember, range) >>
    ELSE IF \/ conflictingMember.HasConditions
            \/ conflictingMember.HasImplementation
         THEN << reportMemberConflictError(it, interfaceMember, conflictingIt,
                                           conflictingMember, range) >>
         ELSE <<>>

checkDuplicateInterfaceMembers(it, interfaceMember, conflictingIt, conflictingMember, range) ==
    IF ~memberSatisfied(it, interfaceMember, conflictingMember)
    THEN << reportMemberConflictError(it, interfaceMember, conflictingIt,
                                      conflictingMember, range) >>
    ELSE IF \/ interfaceMember.HasConditions
            \/ interfaceMember.HasImplementation
            \/ conflictingMember.HasConditions
            \/ conflictingMember.HasImplementation
         THEN << reportMemberConflictError(it, interfaceMember, conflictingIt,
                                           conflictingMember, range) >>
         ELSE <<>>

\* The record of one call of checkDuplicateInterfaceMembers.
DupCall(it, interfaceMember, conflictingIt, conflictingMember, range) ==
    [interfaceType |-> it,
     interfaceMember |-> interfaceMember,
     conflictingInterfaceType |-> conflictingIt,
     conflictingMember |-> conflictingMember,
     range |-> range]

(***************************************************************************)
(* checkInterfaceConformance.                                              *)
(*                                                                         *)
(* The two Foreach loops thread an accumulator: the inherited map, the     *)
(* diagnostics reported so far and, for members, the rule's calls so far.  *)
(***************************************************************************)
\* The mutation that places the diagnostic at the conformance's member.
inheritedGetRange_AtConformance(it, conformance, name) ==
    IdentifierRange(conformance.id, name)

\* The getRange closure of the check against an inherited member: the
\* identifier of the interface declaration.
inheritedGetRange(it, conformance, name) == IdentifierRange(it.id, NoName)

\* The getRange closure of the check against the interface's own member:
\* the identifier of that member.
ownGetRange(it, declarationMember) ==
    IdentifierRange(it.id, declarationMember.Identifier)

\* Lines 394-406: the check against the member recorded in inheritedMembers.
InheritedCheck(it, conformance, inherited, name) ==
    LET conformanceMember == conformance.Members[name]
        conflictingMember == inherited[name]
        range == inheritedGetRange(it, conformance, name)
    IN  IF name \in DOMAIN inherited
        THEN [diags |-> checkDuplicateInterfaceMembers(
                            conformance.id, conformanceMember,
                            conflictingMember.ContainerType, conflictingMember, range),
              calls |-> << DupCall(conformance.id, conformanceMember,
                                   conflictingMember.ContainerType, conflictingMember,
                                   range) >>]
        ELSE [diags |-> <<>>, calls |-> <<>>]

\* Lines 410-424: the check against the interface's own member.
OwnCheck(it, conformance, name) ==
    LET conformanceMember == conformance.Members[name]
        declarationMember == it.Members[name]
        range == ownGetRange(it, declarationMember)
    IN  IF name \in DOMAIN it.Members
        THEN [diags |-> checkDuplicateInterfaceMembers(
                            it.id, declarationMember,
                            conformance.id, conformanceMember, range),
              calls |-> << DupCall(it.id, declarationMember,
                                   conformance.id, conformanceMember, range) >>]
        ELSE [diags |-> <<>>, calls |-> <<>>]

\* The mutation that overwrites the recorded member before comparing.
MemberCallback_OverwriteFirst(it, conformance, acc, name) ==
    LET overwritten == MapSet(acc.inherited, name, conformance.Members[name])
        inheritedCheck == IF name \in DOMAIN acc.inherited
                          THEN InheritedCheck(it, conformance, overwritten, name)
                          ELSE [diags |-> <<>>, calls |-> <<>>]
        ownCheck == OwnCheck(it, conformance, name)
    IN  [inherited |-> overwritten,
         diags |-> acc.diags \o inheritedCheck.diags \o ownCheck.diags,
         calls |-> acc.calls \o inheritedCheck.calls \o ownCheck.calls]

\* The mutation that records a name's first declarer only.
MemberCallback_KeepFirst(it, conformance, acc, name) ==
    LET inheritedCheck == InheritedCheck(it, conformance, acc.inherited, name)
        ownCheck == OwnCheck(it, conformance, name)
    IN  [inherited |-> IF name \in DOMAIN acc.inherited
                       THEN acc.inherited
                       ELSE MapSet(acc.inherited, name, conformance.Members[name]),
         diags |-> acc.diags \o inheritedCheck.diags \o ownCheck.diags,
         calls |-> acc.calls \o inheritedCheck.calls \o ownCheck.calls]

\* The callback of conformance.Members.Foreach for one member name.
MemberCallback(it, conformance, acc, name) ==
    LET inheritedCheck == InheritedCheck(it, conformance, acc.inherited, name)
        ownCheck == OwnCheck(it, conformance, name)
    IN  [inherited |-> MapSet(acc.inherited, name, conformance.Members[name]),
         diags |-> acc.diags \o inheritedCheck.diags \o ownCheck.diags,
         calls |-> acc.calls \o inheritedCheck.calls \o ownCheck.calls]

RECURSIVE MembersForeach(_, _, _, _)
MembersForeach(it, conformance, acc, names) ==
    IF names = <<>> THEN acc
    ELSE MembersForeach(it, conformance,
                        MemberCallback(it, conformance, acc, Head(names)),
                        Tail(names))

\* GetCompositeKind().DeclarationKind(isInterface)
TypeDeclarationKind(type) ==
    IF type.isInterface
    THEN (IF type.CompositeKind = "resource"
          THEN "resource interface" ELSE "structure interface")
    ELSE type.CompositeKind

reportTypeConflictError(it, conformance, typeName, typ, otherType) ==
    IF ~otherType.compositeKinded
    THEN <<>>
    ELSE << InterfaceMemberConflictError(
                it.id, conformance.id, typeName,
                TypeDeclarationKind(typ), TypeDeclarationKind(otherType),
                IdentifierRange(it.id, NoName)) >>

\* The mutation that leaves out the check against the interface's own
\* nested type.
NestedTypeCallback_InheritedOnly(it, conformance, acc, name) ==
    LET typeRequirement == conformance.NestedTypes[name]
        hasInherited == name \in DOMAIN acc.inherited
    IN  IF ~typeRequirement.compositeKinded
        THEN acc
        ELSE [inherited |-> MapSet(acc.inherited, name, typeRequirement),
              diags |-> acc.diags
                        \o (IF hasInherited
                            THEN reportTypeConflictError(it, conformance, name,
                                                         typeRequirement,
                                                         acc.inherited[name])
                            ELSE <<>>)]

\* The callback of conformance.NestedTypes.Foreach for one type name.
NestedTypeCallback(it, conformance, acc, name) ==
    LET typeRequirement == conformance.NestedTypes[name]
        hasInherited == name \in DOMAIN acc.inherited
        inheritedType == acc.inherited[name]
        hasOwn == name \in DOMAIN it.NestedTypes
    IN  IF ~typeRequirement.compositeKinded
        THEN acc
        ELSE IF hasInherited /\ ~inheritedType.compositeKinded
        THEN acc
        ELSE [inherited |-> MapSet(acc.inherited, name, typeRequirement),
              diags |-> acc.diags
                        \o (IF hasInherited
                            THEN reportTypeConflictError(it, conformance, name,
                                                         typeRequirement, inheritedType)
                            ELSE <<>>)
                        \o (IF hasOwn
                            THEN reportTypeConflictError(it, conformance, name,
                                                         typeRequirement,
                                                         it.NestedTypes[name])
                            ELSE <<>>)]

RECURSIVE NestedTypesForeach(_, _, _, _)
NestedTypesForeach(it, conformance, acc, names) ==
    IF names = <<>> THEN acc
    ELSE NestedTypesForeach(it, conformance,
                            NestedTypeCallback(it, conformance, acc, Head(names)),
                            Tail(names))

\* The mutation that gives up a conformance whose kind does not match.
checkInterfaceConformance_StopOnMismatch(it, conformance, acc) ==
    LET kindReports == checkConformanceKindMatch(it, conformance)
    IN  [acc EXCEPT !.diags = @ \o kindReports]

\* checkInterfaceConformance for one conformance: the kind check, the fold
\* over its members, the fold over its nested types.
checkInterfaceConformance(it, conformance, acc) ==
    LET kindReports == checkConformanceKindMatch(it, conformance)
        afterMembers ==
            MembersForeach(it, conformance,
                           [inherited |-> acc.inheritedMembers,
                            diags |-> acc.diags \o kindReports,
                            calls |-> acc.calls],
                           KeysInOrder(conformance.Members, MemberNameOrder))
        afterTypes ==
            NestedTypesForeach(it, conformance,
                               [inherited |-> acc.inheritedTypes,
                                diags |-> afterMembers.diags],
                               KeysInOrder(conformance.NestedTypes,
                                           NestedTypeNameOrder))
    IN  [inheritedMembers |-> afterMembers.inherited,
         inheritedTypes |-> afterTypes.inherited,
         diags |-> afterTypes.diags,
         calls |-> afterMembers.calls]

(***************************************************************************)
(* VisitInterfaceDeclaration, up to the end of the ForeachDistinct loop.   *)
(***************************************************************************)
\* VisitInterfaceDeclaration is called on one interface and no other.
NoFurtherVisits == [list |-> <<>>, index |-> 0]

\* The mutation that keeps the two maps of the call before.
BeginVisit_KeepMaps ==
    /\ visitPc = "start"
    /\ visitPc' = "conformances"
    /\ UNCHANGED <<inheritedMembers, inheritedTypes>>
    /\ UNCHANGED <<interfaceType, conformances, confIndex, diagnostics, dupCalls,
                   interfaceVisits>>
    /\ UNCHANGED <<accVars, funVars, lifeVars, migVars, issueVars, prepVars>>

\* Lines 54-55: the two transient maps are created empty.
BeginVisit ==
    /\ visitPc = "start"
    /\ visitPc' = "conformances"
    /\ inheritedMembers' = EmptyMap
    /\ inheritedTypes' = EmptyMap
    /\ UNCHANGED <<interfaceType, conformances, confIndex, diagnostics, dupCalls,
                   interfaceVisits>>
    /\ UNCHANGED <<accVars, funVars, lifeVars, migVars, issueVars, prepVars>>

\* One iteration of ForeachDistinct: checkInterfaceConformance on the next
\* conformance.
CheckInterfaceConformance ==
    /\ visitPc = "conformances"
    /\ confIndex < Len(conformances)
    /\ LET checked == checkInterfaceConformance(
                          interfaceType, conformances[confIndex + 1],
                          [inheritedMembers |-> inheritedMembers,
                           inheritedTypes |-> inheritedTypes,
                           diags |-> diagnostics,
                           calls |-> dupCalls])
       IN  /\ inheritedMembers' = checked.inheritedMembers
           /\ dupCalls' = checked.calls
           /\ inheritedTypes' = checked.inheritedTypes
           /\ diagnostics' = checked.diags
    /\ confIndex' = confIndex + 1
    /\ UNCHANGED <<interfaceType, conformances, visitPc, interfaceVisits>>
    /\ UNCHANGED <<accVars, funVars, lifeVars, migVars, issueVars, prepVars>>

\* ForeachDistinct has no conformance left.
FinishConformances ==
    /\ visitPc = "conformances"
    /\ confIndex = Len(conformances)
    /\ visitPc' = "conformancesChecked"
    /\ UNCHANGED <<interfaceType, conformances, confIndex, inheritedMembers,
                   inheritedTypes, diagnostics, dupCalls, interfaceVisits>>
    /\ UNCHANGED <<accVars, funVars, lifeVars, migVars, issueVars, prepVars>>

(***************************************************************************)
(* The access model (runtime/ast/access.go).                               *)
(***************************************************************************)
\* The *NominalType values entitlement sets refer to. Identity is the
\* pointer; two declarations may carry the same name.
NominalTypes ==
    { [ptr |-> 1, Identifier |-> "E1"],
      [ptr |-> 2, Identifier |-> "E2"],
      [ptr |-> 3, Identifier |-> "E1"] }

Separators == {"Disjunction", "Conjunction"}

PrimitiveAccesses ==
    {"AccessNotSpecified", "AccessPrivate", "AccessContract",
     "AccessAccount", "AccessPublic", "AccessPublicSettable"}

\* The mutation that numbers the constants in the order of AllAccesses.
PrimitiveOrdinal_BasicFirst(p) ==
    CASE p = "AccessNotSpecified"   -> 0
      [] p = "AccessPrivate"        -> 1
      [] p = "AccessPublic"         -> 2
      [] p = "AccessPublicSettable" -> 3
      [] p = "AccessContract"       -> 4
      [] p = "AccessAccount"        -> 5

\* The value iota gives each constant of the PrimitiveAccess enumeration.
PrimitiveOrdinal(p) ==
    CASE p = "AccessNotSpecified"   -> 0
      [] p = "AccessPrivate"        -> 1
      [] p = "AccessContract"       -> 2
      [] p = "AccessAccount"        -> 3
      [] p = "AccessPublic"         -> 4
      [] p = "AccessPublicSettable" -> 5

PrimitiveAccess(p) ==
    [variant |-> "PrimitiveAccess", primitive |-> p,
     hasSet |-> FALSE, Elements |-> <<>>, Separator |-> "Disjunction"]

\* NewEntitlementAccess over a Conjunctive- or DisjunctiveEntitlementSet.
EntitlementAccess(elements, separator) ==
    [variant |-> "EntitlementAccess", primitive |-> "none",
     hasSet |-> TRUE, Elements |-> elements, Separator |-> separator]

\* EntitlementAccess{}: the EntitlementSet field is the nil interface.
UnsetEntitlementAccess ==
    [variant |-> "EntitlementAccess", primitive |-> "none",
     hasSet |-> FALSE, Elements |-> <<>>, Separator |-> "Disjunction"]

SeqsUpTo(S, n) == UNION { [1..k -> S] : k \in 0..n }

EntitlementAccesses ==
    { EntitlementAccess(els, sep) :
        els \in SeqsUpTo(NominalTypes, MaxEntitlements), sep \in Separators }

AccessValues ==
    { PrimitiveAccess(p) : p \in PrimitiveAccesses }
        \cup EntitlementAccesses \cup {UnsetEntitlementAccess}

Returned(b) == [panicked |-> FALSE, value |-> b]
Panicked == [panicked |-> TRUE, value |-> FALSE]

\* The mutation that makes the comparison strict: a set is below another
\* only when the other also holds an entitlement the first does not.
subsetLoop_Strict(entitlements, otherSet) ==
    /\ \A i \in 1..Len(entitlements) : entitlements[i].ptr \in otherSet
    /\ otherSet # { entitlements[i].ptr : i \in 1..Len(entitlements) }

\* The loop of subset over e's entitlements: false at the first one that is
\* not a key of otherSet.
RECURSIVE subsetLoop(_, _)
subsetLoop(entitlements, otherSet) ==
    IF entitlements = <<>> THEN TRUE
    ELSE IF Head(entitlements).ptr \notin otherSet THEN FALSE
    ELSE subsetLoop(Tail(entitlements), otherSet)

\* The mutation that keys otherSet by the entitlements' names.
subset_ByName(e, other) ==
    IF ~other.hasSet \/ ~e.hasSet
    THEN Panicked
    ELSE LET otherSet == { other.Elements[i].Identifier : i \in 1..Len(other.Elements) }
         IN  Returned(\A i \in 1..Len(e.Elements) : e.Elements[i].Identifier \in otherSet)

\* EntitlementAccess.subset; calling Entitlements() on a nil EntitlementSet
\* is a nil dereference.
subset(e, other) ==
    IF ~other.hasSet \/ ~e.hasSet
    THEN Panicked
    ELSE LET otherSet == { other.Elements[i].ptr : i \in 1..Len(other.Elements) }
         IN  Returned(subsetLoop(e.Elements, otherSet))

\* The mutation that forgets AccessPublicSettable.
EntitlementIsLessPermissiveThan_PublicOnly(e, other) ==
    CASE other.variant = "PrimitiveAccess" ->
            Returned(other.primitive = "AccessPublic")
      [] other.variant = "EntitlementAccess" -> subset(e, other)
      [] OTHER -> Returned(FALSE)

\* EntitlementAccess.IsLessPermissiveThan
EntitlementIsLessPermissiveThan(e, other) ==
    CASE other.variant = "PrimitiveAccess" ->
            Returned(other.primitive = "AccessPublic"
                     \/ other.primitive = "AccessPublicSettable")
      [] other.variant = "EntitlementAccess" -> subset(e, other)
      [] OTHER -> Returned(FALSE)

\* The mutation that ranks AccessPrivate below every entitlement access.
PrimitiveIsLessPermissiveThan_PrivateBelow(a, other) ==
    IF other.variant = "PrimitiveAccess"
    THEN Returned(PrimitiveOrdinal(a.primitive) < PrimitiveOrdinal(other.primitive))
    ELSE Returned(a.primitive = "AccessPrivate")

\* The comparison with a primitive access as the receiver: by enumeration
\* order against a primitive, never less permissive than an entitlement
\* access.
PrimitiveIsLessPermissiveThan(a, other) ==
    IF other.variant = "PrimitiveAccess"
    THEN Returned(PrimitiveOrdinal(a.primitive) < PrimitiveOrdinal(other.primitive))
    ELSE Returned(FALSE)

IsLessPermissiveThan(a, b) ==
    IF a.variant = "EntitlementAccess"
    THEN EntitlementIsLessPermissiveThan(a, b)
    ELSE PrimitiveIsLessPermissiveThan(a, b)

\* One call a.IsLessPermissiveThan(b).
Compare ==
    /\ accessPc = "call"
    /\ accessResult' = IsLessPermissiveThan(accessA, accessB)
    /\ accessPc' = "returned"
    /\ UNCHANGED <<accessA, accessB>>
    /\ UNCHANGED <<confVars, funVars, lifeVars, migVars, issueVars, prepVars>>

\* The next call of VisitInterfaceDeclaration: on a nested interface, from
\* the loop of lines 132-134, or on the next declaration of the program.
\* The maps of the call before are that call's locals; the new call makes
\* its own in BeginVisit.
VisitNextInterface ==
    /\ visitPc = "conformancesChecked"
    /\ interfaceVisits.index < Len(interfaceVisits.list)
    /\ LET next == interfaceVisits.list[interfaceVisits.index + 1]
       IN  /\ interfaceType' = next.interfaceType
           /\ conformances' = next.conformances
    /\ interfaceVisits' = [interfaceVisits EXCEPT !.index = @ + 1]
    /\ visitPc' = "start"
    /\ confIndex' = 0
    /\ UNCHANGED <<inheritedMembers, inheritedTypes, diagnostics, dupCalls>>
    /\ UNCHANGED <<accVars, funVars, lifeVars, migVars, issueVars, prepVars>>

(***************************************************************************)
(* checkInterfaceFunctions.                                                *)
(***************************************************************************)
\* A function declaration: whether FunctionBlock is set and, if so, the
\* numbers of its statements, pre-conditions and post-conditions.
NoBlockFunction ==
    [hasBlock |-> FALSE, statements |-> 0, preConditions |-> 0, postConditions |-> 0]

FunctionDeclarations ==
    {NoBlockFunction} \cup
    [hasBlock : {TRUE}, statements : 0..MaxStatements,
     preConditions : 0..MaxConditions, postConditions : 0..MaxConditions]

HasStatements(function) == function.statements > 0
PreConditionsIsEmpty(function) == function.preConditions = 0
PostConditionsIsEmpty(function) == function.postConditions = 0

InvalidImplementationError(pos, kind) ==
    [error |-> "InvalidImplementationError", Pos |-> pos,
     ContainerKind |-> kind, ImplementedKind |-> "function"]

\* The mutation that sets both options for every function with a block.
BodyOptions_AnyBlock(function) ==
    IF function.hasBlock
    THEN [mustExit |-> TRUE, declareFunction |-> FALSE, checkResourceLoss |-> TRUE]
    ELSE [mustExit |-> FALSE, declareFunction |-> FALSE, checkResourceLoss |-> FALSE]

\* mustExit and checkResourceLoss, set together on lines 199-205.
BodyOptions(function) ==
    IF function.hasBlock /\ HasStatements(function)
    THEN [mustExit |-> TRUE, declareFunction |-> FALSE, checkResourceLoss |-> TRUE]
    ELSE [mustExit |-> FALSE, declareFunction |-> FALSE, checkResourceLoss |-> FALSE]

\* The mutation that reports when either condition list is empty.
FunctionReports_EitherEmpty(function, pos, kind) ==
    IF function.hasBlock
    THEN IF HasStatements(function)
         THEN <<>>
         ELSE IF PreConditionsIsEmpty(function) \/ PostConditionsIsEmpty(function)
              THEN << InvalidImplementationError(pos, kind) >>
              ELSE <<>>
    ELSE <<>>

\* What lines 202-217 report for the function at position pos.
FunctionReports(function, pos, kind) ==
    IF function.hasBlock
    THEN IF HasStatements(function)
         THEN <<>>
         ELSE IF PreConditionsIsEmpty(function) /\ PostConditionsIsEmpty(function)
              THEN << InvalidImplementationError(pos, kind) >>
              ELSE <<>>
    ELSE <<>>

\* One iteration of the loop of checkInterfaceFunctions: the closure that
\* enters a value scope, checks one function and leaves the scope.
CheckInterfaceFunction ==
    /\ funcIndex < Len(functions)
    /\ LET pos == funcIndex + 1
           function == functions[pos]
           entered == valueScopeDepth + 1
       IN  /\ funcReports' = funcReports \o FunctionReports(function, pos, containerKind)
           /\ bodyChecks' = Append(bodyChecks,
                                   [function |-> pos,
                                    options |-> BodyOptions(function),
                                    scopeDepth |-> entered])
           /\ valueScopeDepth' = entered - 1
    /\ funcIndex' = funcIndex + 1
    /\ UNCHANGED <<functions, containerKind>>
    /\ UNCHANGED <<confVars, accVars, lifeVars, migVars, issueVars, prepVars>>

(***************************************************************************)
(* The three passes over one declaration tree: declareInterfaceType,       *)
(* declareInterfaceMembers and VisitInterfaceDeclaration.                  *)
(*                                                                         *)
(* A declaration is identified by its path from the top-level declaration: *)
(* <<>> is the top-level declaration, Append(p, k) the k-th nested         *)
(* interface of p, Append(p, 0 - k) its k-th nested composite.  The last   *)
(* element of the path serves as the declaration's identifier.             *)
(* The passes are operators on the state of the Checker, a record.         *)
(***************************************************************************)
RootPath == <<>>

InterfacePath(path, k) == Append(path, k)

CompositePath(path, k) == Append(path, 0 - k)

IdentifierOf(path) == IF path = <<>> THEN 0 ELSE path[Len(path)]

DeclarationKinds == {"contract", "enum"}

CompositeDeclaration ==
    [CompositeKind |-> "resource", Members |-> {"g"}]

CompositeDeclarationLists == {<<>>, <<CompositeDeclaration>>}

InterfaceDeclaration(kind, interfaces, composites) ==
    [CompositeKind |-> kind,
     Conformances |-> <<"A", "B">>,
     Members |-> {"f"},
     Functions |-> <<"f", "g">>,
     InterfaceDeclarations |-> interfaces,
     CompositeDeclarations |-> composites]

\* The declaration trees of exactly n interface declarations.
RECURSIVE InterfaceTrees(_)
RECURSIVE InterfaceForests(_)
InterfaceTrees(n) ==
    IF n = 0 THEN {}
    ELSE { InterfaceDeclaration(kind, interfaces, composites)
           : kind \in DeclarationKinds,
             interfaces \in InterfaceForests(n - 1),
             composites \in CompositeDeclarationLists }

InterfaceForests(n) ==
    IF n = 0 THEN {<<>>}
    ELSE UNION { { <<t>> \o rest : t \in InterfaceTrees(m),
                                   rest \in InterfaceForests(n - m) }
                 : m \in 1..n }

DeclarationTrees == UNION { InterfaceTrees(n) : n \in 1..MaxDeclarations }

\* The Checker before any pass has run.
NewChecker ==
    [InterfaceDeclarationTypes |-> EmptyMap,
     InterfaceTypeDeclarations |-> EmptyMap,
     InterfaceNestedDeclarations |-> EmptyMap,
     CompositeDeclarationTypes |-> EmptyMap,
     types |-> EmptyMap,
     containerTypes |-> {},
     typeDepth |-> 0,
     valueDepth |-> 0,
     reports |-> <<>>,
     trace |-> <<>>,
     fault |-> "none"]

Faulted(st) == st.fault # "none"

\* A step of a pass, recorded with the scope depths it ran at.
EmitDetail(st, step, path, detail) ==
    IF Faulted(st) THEN st
    ELSE [st EXCEPT !.trace = Append(@, [step |-> step, decl |-> path,
                                         detail |-> detail,
                                         typeDepth |-> st.typeDepth,
                                         valueDepth |-> st.valueDepth])]

Emit(st, step, path) == EmitDetail(st, step, path, NoName)

Report(st, err) ==
    IF Faulted(st) THEN st ELSE [st EXCEPT !.reports = Append(@, err)]

\* panic(errors.NewUnreachableError()): the rest of the pass does not run.
Panic_Ignored(st, kind) == st

Panic(st, kind) ==
    IF Faulted(st) THEN st ELSE [st EXCEPT !.fault = kind]

typeActivationsEnter(st) ==
    IF Faulted(st) THEN st ELSE [st EXCEPT !.typeDepth = @ + 1]

enterValueScope(st) ==
    IF Faulted(st) THEN st ELSE [st EXCEPT !.valueDepth = @ + 1]

\* The deferred Leave calls: they run on return and on panic alike.
typeActivationsLeave_Skipped(st) == st

typeActivationsLeave(st) == [st EXCEPT !.typeDepth = @ - 1]

leaveValueScope(st) == [st EXCEPT !.valueDepth = @ - 1]

SupportsInterfaces(kind) == kind \in {"structure", "resource", "contract"}

InvalidInterfaceDeclarationError(kind, path) ==
    [error |-> "InvalidInterfaceDeclarationError",
     CompositeKind |-> kind,
     Range |-> IdentifierRange(path, NoName)]

NewInterfaceType(d, path) ==
    [Identifier |-> IdentifierOf(path),
     CompositeKind |-> d.CompositeKind,
     NestedTypes |-> EmptyMap,
     Members |-> {},
     membersAssigned |-> FALSE,
     ExplicitInterfaceConformances |-> d.Conformances]

NewCompositeType(c, path) ==
    [Identifier |-> IdentifierOf(path),
     CompositeKind |-> c.CompositeKind,
     Members |-> {},
     membersAssigned |-> FALSE]

\* The nestedDeclarations map: identifier |-> nested declaration.
NestedDeclarationsOf(d, path) ==
    [name \in { k : k \in 1..Len(d.InterfaceDeclarations) }
              \cup { 0 - k : k \in 1..Len(d.CompositeDeclarations) } |->
        [path |-> Append(path, name),
         Identifier |-> name,
         hasIdentifier |-> TRUE,
         isInterface |-> name > 0]]

\* What the two NestedTypes.Set loops leave: identifier |-> nested type.
NestedTypesOfDeclaration(d, path) ==
    [name \in DOMAIN NestedDeclarationsOf(d, path) |-> Append(path, name)]

\* The elaboration records the type in both directions.
RecordInterfaceType_ReverseOnly(st, path) ==
    [st EXCEPT !.InterfaceTypeDeclarations = MapSet(@, path, path)]

RecordInterfaceType(st, path) ==
    [st EXCEPT !.InterfaceDeclarationTypes = MapSet(@, path, path),
               !.InterfaceTypeDeclarations = MapSet(@, path, path)]

\* The kind of the declaration must support interfaces; the pass goes on
\* after the report.
reportInvalidInterfaceDeclaration_Never(st, d, path) == st

reportInvalidInterfaceDeclaration(st, d, path) ==
    IF SupportsInterfaces(d.CompositeKind) THEN st
    ELSE Report(st, InvalidInterfaceDeclarationError(d.CompositeKind, path))

\* declareCompositeType, as declareNestedDeclarations applies it to a
\* nested composite declaration.
declareCompositeType(st, c, path) ==
    LET entered == Emit(st, "declareCompositeType", path)
    IN [entered EXCEPT !.types = MapSet(@, path, NewCompositeType(c, path)),
                       !.CompositeDeclarationTypes = MapSet(@, path, path)]

RECURSIVE declareInterfaceType(_, _, _)
RECURSIVE declareNestedInterfaceTypes(_, _, _, _)
RECURSIVE declareNestedCompositeTypes(_, _, _, _)

declareNestedInterfaceTypes(st, ds, path, k) ==
    IF k > Len(ds) THEN st
    ELSE declareNestedInterfaceTypes(
             declareInterfaceType(st, ds[k], InterfacePath(path, k)),
             ds, path, k + 1)

declareNestedCompositeTypes(st, cs, path, k) ==
    IF k > Len(cs) THEN st
    ELSE declareNestedCompositeTypes(
             declareCompositeType(st, cs[k], CompositePath(path, k)),
             cs, path, k + 1)

\* declareNestedDeclarations: a fresh type for every nested interface and
\* every nested composite, the interfaces first.
declareNestedDeclarations(st, d, path) ==
    declareNestedCompositeTypes(
        declareNestedInterfaceTypes(st, d.InterfaceDeclarations, path, 1),
        d.CompositeDeclarations, path, 1)

declareInterfaceType(st, d, path) ==
    LET entered == Emit(st, "declareInterfaceType", path)
        created == [entered EXCEPT
                       !.types = MapSet(@, path, NewInterfaceType(d, path))]
        recorded == RecordInterfaceType(created, path)
        reported == reportInvalidInterfaceDeclaration(recorded, d, path)
        scoped == enterValueScope(typeActivationsEnter(reported))
        nested == declareNestedDeclarations(scoped, d, path)
        stored == [nested EXCEPT
                      !.InterfaceNestedDeclarations =
                          MapSet(@, path, NestedDeclarationsOf(d, path)),
                      !.types[path].NestedTypes =
                          NestedTypesOfDeclaration(d, path)]
    IN typeActivationsLeave(leaveValueScope(stored))

\* declareInterfaceNestedTypes: every nested type is declared again from
\* the declaration the elaboration holds for its name.
declareInterfaceNestedTypes(st, path, declaredType) ==
    LET nestedDeclarations ==
            IF path \in DOMAIN st.InterfaceNestedDeclarations
            THEN st.InterfaceNestedDeclarations[path] ELSE EmptyMap
        names == DOMAIN st.types[declaredType].NestedTypes
        entered == Emit(st, "declareInterfaceNestedTypes", path)
    IN IF \E name \in names : name \notin DOMAIN nestedDeclarations
       THEN Panic(entered, "nil dereference")
       ELSE IF \E name \in names : ~nestedDeclarations[name].hasIdentifier
       THEN Panic(entered, "unreachable")
       ELSE entered

\* declareCompositeMembersAndValue of a nested composite declaration.
declareCompositeMembersAndValue(st, c, path) ==
    IF Faulted(st) THEN st
    ELSE LET entered == Emit(st, "declareCompositeMembersAndValue", path)
         IN IF path \notin DOMAIN entered.CompositeDeclarationTypes
            THEN Panic(entered, "unreachable")
            ELSE [entered EXCEPT !.types[path].Members = c.Members,
                                 !.types[path].membersAssigned = TRUE]

RECURSIVE declareInterfaceMembers(_, _, _)
RECURSIVE declareNestedInterfaceMembers(_, _, _, _)
RECURSIVE declareNestedCompositeMembers(_, _, _, _)

declareNestedInterfaceMembers_Shallow(st, ds, path, k) == st

declareNestedInterfaceMembers(st, ds, path, k) ==
    IF k > Len(ds) THEN st
    ELSE declareNestedInterfaceMembers(
             declareInterfaceMembers(st, ds[k], InterfacePath(path, k)),
             ds, path, k + 1)

declareNestedCompositeMembers(st, cs, path, k) ==
    IF k > Len(cs) THEN st
    ELSE declareNestedCompositeMembers(
             declareCompositeMembersAndValue(st, cs[k], CompositePath(path, k)),
             cs, path, k + 1)

declareInterfaceMembers(st, d, path) ==
    IF Faulted(st) THEN st
    ELSE IF path \notin DOMAIN st.InterfaceDeclarationTypes
    THEN Panic(Emit(st, "declareInterfaceMembers", path), "unreachable")
    ELSE LET declaredType == st.InterfaceDeclarationTypes[path]
             entered == Emit(st, "declareInterfaceMembers", path)
             scoped == enterValueScope(typeActivationsEnter(entered))
             declared == declareInterfaceNestedTypes(scoped, path, declaredType)
             storable ==
                 IF st.types[declaredType].CompositeKind = "contract"
                 THEN Emit(declared, "checkMemberStorability", path)
                 ELSE declared
             assigned ==
                 IF Faulted(storable) THEN storable
                 ELSE [storable EXCEPT
                          !.types[declaredType].Members = d.Members,
                          !.types[declaredType].membersAssigned = TRUE]
             interfaces == declareNestedInterfaceMembers(
                               assigned, d.InterfaceDeclarations, path, 1)
             composites == declareNestedCompositeMembers(
                               interfaces, d.CompositeDeclarations, path, 1)
         IN typeActivationsLeave(leaveValueScope(composites))

NoDeclaration == InterfaceDeclaration("unknown", <<>>, <<>>)

\* visitCompositeDeclaration of a nested composite declaration.
visitCompositeDeclaration(st, c, path) ==
    IF Faulted(st) THEN st
    ELSE LET entered == Emit(st, "visitCompositeDeclaration", path)
         IN IF path \notin DOMAIN entered.CompositeDeclarationTypes
            THEN Panic(entered, "unreachable")
            ELSE Emit(entered, "return visitCompositeDeclaration", path)

\* The ForeachDistinct loop of VisitInterfaceDeclaration.
RECURSIVE checkConformances(_, _, _, _)
checkConformances(st, cs, path, k) ==
    IF k > Len(cs) THEN st
    ELSE checkConformances(
             EmitDetail(st, "checkInterfaceConformance", path, cs[k]),
             cs, path, k + 1)

\* checkInterfaceFunctions: each function is checked in a value scope of
\* its own.
RECURSIVE checkFunctions(_, _, _, _)
checkFunctions(st, fs, path, k) ==
    IF k > Len(fs) THEN st
    ELSE checkFunctions(
             leaveValueScope(
                 EmitDetail(enterValueScope(st), "checkFunction", path, fs[k])),
             fs, path, k + 1)

RECURSIVE VisitInterfaceDeclaration(_, _, _)
RECURSIVE visitNestedInterfaces(_, _, _, _)
RECURSIVE visitNestedComposites(_, _, _, _)

visitNestedInterfaces(st, ds, path, k) ==
    IF k > Len(ds) THEN st
    ELSE visitNestedInterfaces(
             VisitInterfaceDeclaration(st, ds[k], InterfacePath(path, k)),
             ds, path, k + 1)

visitNestedComposites(st, cs, path, k) ==
    IF k > Len(cs) THEN st
    ELSE visitNestedComposites(
             visitCompositeDeclaration(st, cs[k], CompositePath(path, k)),
             cs, path, k + 1)

VisitBeforeScope_FieldsFirst(st, path, declaredType) ==
    LET fields == Emit(st, "checkFieldsAccessModifier", path)
    IN checkConformances(
           fields, st.types[declaredType].ExplicitInterfaceConformances,
           path, 1)

\* The steps of VisitInterfaceDeclaration before the nested type scope is
\* entered.
VisitBeforeScope(st, path, declaredType) ==
    LET container == IF Faulted(st) THEN st
                     ELSE [st EXCEPT !.containerTypes = @ \cup {declaredType}]
        access == Emit(container, "checkDeclarationAccessModifier", path)
        conformed == checkConformances(
                         access,
                         st.types[declaredType].ExplicitInterfaceConformances,
                         path, 1)
        fields == Emit(conformed, "checkFieldsAccessModifier", path)
    IN Emit(fields, "checkNestedIdentifiers", path)

\* The steps of VisitInterfaceDeclaration inside the nested type scope.
VisitInScope(st, d, path, declaredType) ==
    LET entered == Emit(st, "typeActivations.Enter", path)
        declared == declareInterfaceNestedTypes(entered, path, declaredType)
        initializers == Emit(declared, "checkInitializers", path)
        unknown == Emit(initializers, "checkUnknownSpecialFunctions", path)
        special == Emit(unknown,
                        "checkSpecialFunctionDefaultImplementation", path)
        funcs == checkFunctions(
                     Emit(special, "checkInterfaceFunctions", path),
                     d.Functions, path, 1)
        nesting == Emit(funcs, "checkResourceFieldNesting", path)
        destructors == Emit(nesting, "checkDestructors", path)
        interfaces == visitNestedInterfaces(
                          destructors, d.InterfaceDeclarations, path, 1)
    IN visitNestedComposites(interfaces, d.CompositeDeclarations, path, 1)

VisitInterfaceDeclaration(st, d, path) ==
    IF Faulted(st) THEN st
    ELSE IF path \notin DOMAIN st.InterfaceDeclarationTypes
    THEN Panic(Emit(st, "VisitInterfaceDeclaration", path), "unreachable")
    ELSE LET declaredType == st.InterfaceDeclarationTypes[path]
             called == Emit(st, "VisitInterfaceDeclaration", path)
             before == VisitBeforeScope(called, path, declaredType)
             inside == VisitInScope(typeActivationsEnter(before), d, path,
                                    declaredType)
             left == typeActivationsLeave(inside)
             returned == Emit(left, "return VisitInterfaceDeclaration", path)
         IN [returned EXCEPT !.containerTypes = @ \ {declaredType}]

(***************************************************************************)
(* The driver of the passes: each pass is invoked at most once on the      *)
(* top-level declaration, in any order; a fault ends the run.              *)
(***************************************************************************)
Passes == {"declareInterfaceType", "declareInterfaceMembers",
           "VisitInterfaceDeclaration"}

CanCall(pass) ==
    /\ rootDeclaration # NoDeclaration
    /\ ~Faulted(checker)
    /\ \A i \in 1..Len(passCalls) : passCalls[i] # pass

CallDeclareInterfaceType ==
    /\ CanCall("declareInterfaceType")
    /\ checker' = declareInterfaceType(checker, rootDeclaration, RootPath)
    /\ passCalls' = Append(passCalls, "declareInterfaceType")
    /\ UNCHANGED rootDeclaration
    /\ UNCHANGED <<confVars, accVars, funVars, migVars, issueVars, prepVars>>

CallDeclareInterfaceMembers ==
    /\ CanCall("declareInterfaceMembers")
    /\ checker' = declareInterfaceMembers(checker, rootDeclaration, RootPath)
    /\ passCalls' = Append(passCalls, "declareInterfaceMembers")
    /\ UNCHANGED rootDeclaration
    /\ UNCHANGED <<confVars, accVars, funVars, migVars, issueVars, prepVars>>

CallVisitInterfaceDeclaration ==
    /\ CanCall("VisitInterfaceDeclaration")
    /\ checker' = VisitInterfaceDeclaration(checker, rootDeclaration, RootPath)
    /\ passCalls' = Append(passCalls, "VisitInterfaceDeclaration")
    /\ UNCHANGED rootDeclaration
    /\ UNCHANGED <<confVars, accVars, funVars, migVars, issueVars, prepVars>>

(***************************************************************************)
(* CapConsMigration.Migrate (runtime/capcons.go).                          *)
(*                                                                         *)
(* One action per iteration of the two address loops; the migration of an  *)
(* account is an operator on the state of the migration, a record of the   *)
(* capability ID mapping, the storage, the ID generator and the reporter.  *)
(***************************************************************************)
ZeroAddress == 0

Accounts == {1, 2}

Addresses == {ZeroAddress} \cup Accounts

PathIdentifierOrder == <<"p">>

NoPath == [domain |-> NoName, identifier |-> NoName]

PathValue(domain, identifier) == [domain |-> domain, identifier |-> identifier]

AddressPath(address, path) == [Address |-> address, Path |-> path]

\* The borrow type of a capability: a reference type, or nil.
NoBorrowType == "nil"

\* Stored values.
PathLinkValue ==
    [kind |-> "PathLinkValue", Address |-> ZeroAddress, Path |-> NoPath, ID |-> 0,
     BorrowType |-> NoBorrowType]

IntValue ==
    [kind |-> "IntValue", Address |-> ZeroAddress, Path |-> NoPath, ID |-> 0,
     BorrowType |-> NoBorrowType]

PathCapabilityValue(address, path, borrowType) ==
    [kind |-> "PathCapabilityValue", Address |-> address, Path |-> path, ID |-> 0,
     BorrowType |-> borrowType]

IDCapabilityValue(id, address, borrowType) ==
    [kind |-> "IDCapabilityValue", Address |-> address, Path |-> NoPath, ID |-> id,
     BorrowType |-> borrowType]

CapabilityControllerValue(id) ==
    [kind |-> "CapabilityControllerValue", Address |-> ZeroAddress,
     Path |-> NoPath, ID |-> id, BorrowType |-> NoBorrowType]

\* A storage map of an account's domain; GetStorageMap returns nil for a
\* domain that was never written.
NilStorageMap == [exists |-> FALSE, entries |-> EmptyMap]

StorageMap(entries) == [exists |-> TRUE, entries |-> entries]

AccountStorage(public, private, stored) ==
    [public |-> public, private |-> private, storage |-> stored]

\* The accounts the model starts from.
AccountStorages ==
    { AccountStorage(NilStorageMap, NilStorageMap, NilStorageMap),
      AccountStorage(StorageMap(MapSet(EmptyMap, "p", PathLinkValue)),
                     NilStorageMap,
                     StorageMap(MapSet(EmptyMap, "p",
                         PathCapabilityValue(1, PathValue("public", "p"), "&T1")))),
      AccountStorage(NilStorageMap,
                     StorageMap(MapSet(EmptyMap, "p", PathLinkValue)),
                     StorageMap(MapSet(EmptyMap, "p",
                         PathCapabilityValue(2, PathValue("private", "p"), "&T2")))),
      AccountStorage(StorageMap(MapSet(EmptyMap, "p", PathLinkValue)),
                     NilStorageMap,
                     StorageMap(MapSet(EmptyMap, "p",
                         PathCapabilityValue(2, PathValue("private", "p"), "&T2")))),
      AccountStorage(StorageMap(MapSet(EmptyMap, "p", IntValue)),
                     StorageMap(EmptyMap),
                     StorageMap(MapSet(EmptyMap, "p", IntValue))) }

\* AddressSliceIterator.
AddressSliceIterator(addresses) == [Addresses |-> addresses, index |-> 0]

\* NextAddress: the address handed out and the iterator afterwards.
NextAddress(a) ==
    IF a.index >= Len(a.Addresses)
    THEN [address |-> ZeroAddress, iterator |-> a]
    ELSE [address |-> a.Addresses[a.index + 1],
          iterator |-> [a EXCEPT !.index = @ + 1]]

\* The mutation that leaves the iterator where the first loop left it.
Reset_Skipped(a) == a

Reset(a) == [a EXCEPT !.index = 0]

GetStorageMap(ms, address, domain) ==
    IF address \in DOMAIN ms.storage THEN ms.storage[address][domain]
    ELSE NilStorageMap

\* stdlib.MigrateLinkToCapabilityController: a link is replaced by a
\* capability controller with a fresh ID; anything else yields ID 0.
MigrateLinkToCapabilityController(ms, address, path) ==
    LET value == ms.storage[address][path.domain].entries[path.identifier]
    IN IF value.kind = "PathLinkValue"
       THEN [capabilityID |-> ms.nextID,
             ms |-> [ms EXCEPT
                 !.nextID = @ + 1,
                 !.storage[address][path.domain].entries[path.identifier] =
                     CapabilityControllerValue(ms.nextID)]]
       ELSE [capabilityID |-> 0, ms |-> ms]

MigratedLink(addressPath, capabilityID) ==
    [report |-> "MigratedLink", address |-> addressPath.Address,
     addressPath |-> addressPath, capabilityID |-> capabilityID]

MigratedPathCapability(address, addressPath) ==
    [report |-> "MigratedPathCapability", address |-> address,
     addressPath |-> addressPath, capabilityID |-> 0]

MissingCapabilityID(address, addressPath) ==
    [report |-> "MissingCapabilityID", address |-> address,
     addressPath |-> addressPath, capabilityID |-> 0]

migrateLink(ms, address, path) ==
    LET migrated == MigrateLinkToCapabilityController(ms, address, path)
        addressPath == AddressPath(address, path)
    IN IF migrated.capabilityID = 0 THEN migrated.ms
       ELSE [migrated.ms EXCEPT
                !.capabilityIDs = MapSet(@, addressPath, migrated.capabilityID),
                !.reports = Append(@, MigratedLink(addressPath,
                                                   migrated.capabilityID))]

RECURSIVE migrateLinksOfKeys(_, _, _, _)
migrateLinksOfKeys(ms, address, domain, keys) ==
    IF keys = <<>> THEN ms
    ELSE migrateLinksOfKeys(
             migrateLink(ms, address, PathValue(domain, Head(keys))),
             address, domain, Tail(keys))

migrateAccountLinksInAccountDomain(ms, address, domain) ==
    LET storageMap == GetStorageMap(ms, address, domain)
    IN IF ~storageMap.exists THEN ms
       ELSE migrateLinksOfKeys(ms, address, domain,
                KeysInOrder(storageMap.entries, PathIdentifierOrder))

migrateLinksInAccount(ms, address) ==
    migrateAccountLinksInAccountDomain(
        migrateAccountLinksInAccountDomain(
            [ms EXCEPT !.visits = Append(@, [phase |-> "links",
                                             address |-> address])],
            address, "public"),
        address, "private")

\* The mutation that issues the ID capability without the borrow type.
migratePathCapability_UntypedCapability(ms, address, identifier, value) ==
    IF value.kind # "PathCapabilityValue" THEN ms
    ELSE LET addressPath == AddressPath(value.Address, value.Path)
         IN IF addressPath \notin DOMAIN ms.capabilityIDs
            THEN [ms EXCEPT !.reports =
                     Append(@, MissingCapabilityID(address, addressPath))]
            ELSE [ms EXCEPT
                     !.storage[address].storage.entries[identifier] =
                         IDCapabilityValue(ms.capabilityIDs[addressPath],
                                           value.Address, NoBorrowType),
                     !.reports =
                         Append(@, MigratedPathCapability(address, addressPath))]

\* migratePathCapability: only a path capability is touched.
migratePathCapability(ms, address, identifier, value) ==
    IF value.kind # "PathCapabilityValue" THEN ms
    ELSE LET addressPath == AddressPath(value.Address, value.Path)
         IN IF addressPath \notin DOMAIN ms.capabilityIDs
            THEN [ms EXCEPT !.reports =
                     Append(@, MissingCapabilityID(address, addressPath))]
            ELSE [ms EXCEPT
                     !.storage[address].storage.entries[identifier] =
                         IDCapabilityValue(ms.capabilityIDs[addressPath],
                                           value.Address, value.BorrowType),
                     !.reports =
                         Append(@, MigratedPathCapability(address, addressPath))]

RECURSIVE migratePathCapabilitiesOfKeys(_, _, _)
migratePathCapabilitiesOfKeys(ms, address, keys) ==
    IF keys = <<>> THEN ms
    ELSE migratePathCapabilitiesOfKeys(
             migratePathCapability(ms, address, Head(keys),
                 ms.storage[address].storage.entries[Head(keys)]),
             address, Tail(keys))

migratePathCapabilitiesInAccount(ms, address) ==
    LET visited == [ms EXCEPT !.visits = Append(@, [phase |-> "pathCapabilities",
                                                    address |-> address])]
        storageMap == GetStorageMap(visited, address, "storage")
    IN IF ~storageMap.exists THEN visited
       ELSE migratePathCapabilitiesOfKeys(visited, address,
                KeysInOrder(storageMap.entries, PathIdentifierOrder))

NilCapabilityIDs == [exists |-> FALSE, entries |-> EmptyMap]

MakeCapabilityIDs == [exists |-> TRUE, entries |-> EmptyMap]

\* The state the per-account operators work on, read from the variables.
MigrationState ==
    [capabilityIDs |-> capabilityIDs.entries,
     storage |-> storage,
     nextID |-> nextCapabilityID,
     reports |-> migrationReports,
     visits |-> addressVisits]

StoreMigrationState(ms) ==
    /\ capabilityIDs' = [capabilityIDs EXCEPT !.entries = ms.capabilityIDs]
    /\ storage' = ms.storage
    /\ nextCapabilityID' = ms.nextID
    /\ migrationReports' = ms.reports
    /\ addressVisits' = ms.visits

\* Migrate, up to the first NextAddress.
MigrateBegin ==
    /\ migratePc = "start"
    /\ capabilityIDs' = MakeCapabilityIDs
    /\ migratePc' = "links"
    /\ UNCHANGED <<addressIterator, storage, nextCapabilityID,
                   migrationReports, addressVisits>>
    /\ UNCHANGED <<confVars, accVars, funVars, lifeVars, issueVars, prepVars>>

\* One iteration of the loop of migrateLinks; leaving the loop, Migrate
\* resets the iterator.
MigrateLinksStep ==
    /\ migratePc = "links"
    /\ LET next == NextAddress(addressIterator)
       IN IF next.address = ZeroAddress
          THEN /\ addressIterator' = Reset(next.iterator)
               /\ migratePc' = "pathCapabilities"
               /\ UNCHANGED <<capabilityIDs, storage, nextCapabilityID,
                              migrationReports, addressVisits>>
          ELSE /\ addressIterator' = next.iterator
               /\ StoreMigrationState(
                      migrateLinksInAccount(MigrationState, next.address))
               /\ UNCHANGED migratePc
    /\ UNCHANGED <<confVars, accVars, funVars, lifeVars, issueVars, prepVars>>

\* One iteration of the loop of migratePathCapabilities.
MigratePathCapabilitiesStep ==
    /\ migratePc = "pathCapabilities"
    /\ LET next == NextAddress(addressIterator)
       IN IF next.address = ZeroAddress
          THEN /\ addressIterator' = next.iterator
               /\ migratePc' = "commit"
               /\ UNCHANGED <<capabilityIDs, storage, nextCapabilityID,
                              migrationReports, addressVisits>>
          ELSE /\ addressIterator' = next.iterator
               /\ StoreMigrationState(
                      migratePathCapabilitiesInAccount(MigrationState,
                                                       next.address))
               /\ UNCHANGED migratePc
    /\ UNCHANGED <<confVars, accVars, funVars, lifeVars, issueVars, prepVars>>

\* storage.Commit and the deferred release of the capability ID mapping.
MigrateCommit ==
    /\ migratePc = "commit"
    /\ migratePc' = "returned"
    /\ capabilityIDs' = NilCapabilityIDs
    /\ UNCHANGED <<addressIterator, storage, nextCapabilityID,
                   migrationReports, addressVisits>>
    /\ UNCHANGED <<confVars, accVars, funVars, lifeVars, issueVars, prepVars>>

(***************************************************************************)
(* IssueAccountCapabilities (migrations/capcons/storagecapmigration.go).   *)
(*                                                                         *)
(* The calls share the two mappings.  One action is one iteration of the   *)
(* loop over capabilities.Capabilities; a panic ends the run.              *)
(***************************************************************************)
\* The static types of stored values and the reference types to them.
ValueTypes == {"T1", "T2"}

\* interpreter.NewReferenceStaticType(nil, inferAuth(valueType), valueType)
NewReferenceStaticType(valueType) ==
    CASE valueType = "T1" -> "&T1"
      [] valueType = "T2" -> "&T2"

ReferenceStaticTypes == { NewReferenceStaticType(t) : t \in ValueTypes }

\* A recorded path capability with storage domain target: its path and its
\* borrow type, which may be nil.
AccountCapability(path, borrowType) == [Path |-> path, BorrowType |-> borrowType]

StorageIdentifiers == {"p"}

AccountCapabilityValues ==
    { AccountCapability(PathValue("storage", identifier), borrowType)
      : identifier \in StorageIdentifiers,
        borrowType \in ReferenceStaticTypes \cup {NoBorrowType} }

\* A value of static type valueType in the storage domain.
StoredValueOfType(valueType) == [kind |-> "Value", StaticType |-> valueType]

\* StorageMap.ReadValue: nil for a key without a value.  The receiver is
\* the map GetStorageMap returned; on a nil map the read dereferences nil.
NilValue == [kind |-> "nil", StaticType |-> "none"]

ReadValue(storageMap, key) ==
    IF ~storageMap.exists THEN [panicked |-> TRUE, value |-> NilValue]
    ELSE IF key \in DOMAIN storageMap.entries
         THEN [panicked |-> FALSE, value |-> storageMap.entries[key]]
         ELSE [panicked |-> FALSE, value |-> NilValue]

\* PathTypeCapabilityMapping: capability IDs by address path and borrow
\* type ID.
TypedKey(addressPath, borrowTypeID) ==
    [addressPath |-> addressPath, borrowTypeID |-> borrowTypeID]

\* PathCapabilityMapping: capability ID and borrow type by address path.
UntypedEntry(capabilityID, borrowType) ==
    [capabilityID |-> capabilityID, borrowType |-> borrowType]

\* The reports of StorageCapabilityMigrationReporter.
MissingBorrowType(address, addressPath) ==
    [report |-> "MissingBorrowType", address |-> address,
     addressPath |-> addressPath, borrowType |-> NoBorrowType, capabilityID |-> 0]

InferredMissingBorrowType(address, addressPath, borrowType) ==
    [report |-> "InferredMissingBorrowType", address |-> address,
     addressPath |-> addressPath, borrowType |-> borrowType, capabilityID |-> 0]

IssuedStorageCapabilityController(address, addressPath, borrowType, capabilityID) ==
    [report |-> "IssuedStorageCapabilityController", address |-> address,
     addressPath |-> addressPath, borrowType |-> borrowType,
     capabilityID |-> capabilityID]

\* stdlib.IssueStorageCapabilityController: a controller for the path with
\* the next ID of the account's ID generator.
IssueStorageCapabilityController(is, address, borrowType, path) ==
    LET issuedInAccount ==
            { i \in 1..Len(is.controllers) : is.controllers[i].address = address }
    IN  Cardinality(issuedInAccount) + 1

\* The record of one controller issued.
IssuedController(call, address, path, borrowType, hasBorrowType, capabilityID) ==
    [call |-> call, address |-> address, addressPath |-> AddressPath(address, path),
     borrowType |-> borrowType, hasBorrowType |-> hasBorrowType,
     capabilityID |-> capabilityID]

\* Lines 156-184: issue the controller, record it in the mapping of its
\* kind, report it.
issueAndRecord(is, call, address, capability, borrowType, hasBorrowType) ==
    LET addressPath == AddressPath(address, capability.Path)
        capabilityID == IssueStorageCapabilityController(is, address, borrowType,
                                                         capability.Path)
    IN  [is EXCEPT
            !.controllers = Append(@, IssuedController(call, address, capability.Path,
                                                       borrowType, hasBorrowType,
                                                       capabilityID)),
            !.typed = IF hasBorrowType
                      THEN MapSet(@, TypedKey(addressPath, capability.BorrowType),
                                  capabilityID)
                      ELSE @,
            !.untyped = IF hasBorrowType
                        THEN @
                        ELSE MapSet(@, addressPath,
                                    UntypedEntry(capabilityID, borrowType)),
            !.reports = Append(@, IssuedStorageCapabilityController(
                                      address, addressPath, borrowType, capabilityID))]

\* The mutation that issues without looking the capability up.
issueCapability_NoLookup(is, storageMap, call, address, capability) ==
    LET addressPath == AddressPath(address, capability.Path)
        hasBorrowType == capability.BorrowType # NoBorrowType
    IN  IF hasBorrowType
        THEN issueAndRecord(is, call, address, capability,
                            capability.BorrowType, TRUE)
        ELSE LET read == ReadValue(storageMap, capability.Path.identifier)
             IN  IF read.panicked
                 THEN [is EXCEPT !.fault = "nil dereference"]
                 ELSE IF read.value = NilValue
                 THEN [is EXCEPT !.reports =
                          Append(@, MissingBorrowType(address, addressPath))]
                 ELSE LET borrowType == NewReferenceStaticType(read.value.StaticType)
                      IN  issueAndRecord(
                              [is EXCEPT !.reports =
                                  Append(@, InferredMissingBorrowType(
                                                address, addressPath, borrowType))],
                              call, address, capability, borrowType, FALSE)

\* One iteration of the loop of lines 110-185.
issueCapability(is, storageMap, call, address, capability) ==
    LET addressPath == AddressPath(address, capability.Path)
        hasBorrowType == capability.BorrowType # NoBorrowType
    IN  IF hasBorrowType
        THEN IF TypedKey(addressPath, capability.BorrowType) \in DOMAIN is.typed
             THEN is
             ELSE issueAndRecord(is, call, address, capability,
                                 capability.BorrowType, TRUE)
        ELSE IF addressPath \in DOMAIN is.untyped
             THEN is
             ELSE LET read == ReadValue(storageMap, capability.Path.identifier)
                  IN  IF read.panicked
                      THEN [is EXCEPT !.fault = "nil dereference"]
                      ELSE IF read.value = NilValue
                      THEN [is EXCEPT !.reports =
                               Append(@, MissingBorrowType(address, addressPath))]
                      ELSE LET borrowType ==
                                   NewReferenceStaticType(read.value.StaticType)
                           IN  issueAndRecord(
                                   [is EXCEPT !.reports =
                                       Append(@, InferredMissingBorrowType(
                                                     address, addressPath,
                                                     borrowType))],
                                   call, address, capability, borrowType, FALSE)

\* The state the iteration works on, read from the variables.
IssueState ==
    [typed |-> typedCapabilityMapping,
     untyped |-> untypedCapabilityMapping,
     controllers |-> issuedControllers,
     reports |-> issueReports,
     fault |-> issueFault]

StoreIssueState(is) ==
    /\ typedCapabilityMapping' = is.typed
    /\ untypedCapabilityMapping' = is.untyped
    /\ issuedControllers' = is.controllers
    /\ issueReports' = is.reports
    /\ issueFault' = is.fault

\* A call of IssueAccountCapabilities: the address and the capabilities.
IssueCall(address, capabilities) ==
    [address |-> address, capabilities |-> capabilities]

IssueRunning ==
    /\ issueFault = "none"
    /\ issueIndex < Len(issueCalls)

\* One iteration of the loop of the current call, on the storage map that
\* line 104 fetched for the call's address.
IssueCapabilityStep ==
    /\ IssueRunning
    /\ LET call == issueCalls[issueIndex + 1]
       IN  /\ capabilityIndex < Len(call.capabilities)
           /\ StoreIssueState(
                  issueCapability(IssueState, issueStorage[call.address],
                                  issueIndex + 1, call.address,
                                  call.capabilities[capabilityIndex + 1]))
    /\ capabilityIndex' = capabilityIndex + 1
    /\ UNCHANGED <<issueStorage, issueCalls, issueIndex>>
    /\ UNCHANGED <<confVars, accVars, funVars, lifeVars, migVars, prepVars>>

\* The loop has no capability left: the call returns.
IssueAccountCapabilitiesReturn ==
    /\ IssueRunning
    /\ capabilityIndex = Len(issueCalls[issueIndex + 1].capabilities)
    /\ issueIndex' = issueIndex + 1
    /\ capabilityIndex' = 0
    /\ UNCHANGED <<issueStorage, issueCalls, typedCapabilityMapping,
                   untypedCapabilityMapping, issuedControllers, issueReports,
                   issueFault>>
    /\ UNCHANGED <<confVars, accVars, funVars, lifeVars, migVars, prepVars>>

(***************************************************************************)
(* prepareValue (tools/storage-explorer/value.go), the two composite       *)
(* cases.  A slice is its elements, as many as its length, and its         *)
(* capacity.                                                               *)
(***************************************************************************)
\* The field names, in the order of Go's string comparison.
FieldNameOrder == <<"a", "b", "c", "d">>

FieldNames == { FieldNameOrder[i] : i \in 1..Len(FieldNameOrder) }

FieldNameRank(name) ==
    CHOOSE i \in 1..Len(FieldNameOrder) : FieldNameOrder[i] = name

\* make([]string, length, capacity)
MakeStrings(length, capacity) ==
    [elements |-> [i \in 1..length |-> ""], capacity |-> capacity]

\* A slice holding the given elements.
StringSlice(elements) == [elements |-> elements, capacity |-> Len(elements)]

\* append(slice, element), within the capacity.
AppendString(slice, element) ==
    [slice EXCEPT !.elements = Append(@, element)]

\* copy(dst, src): as many elements as the shorter of the two holds.
CopyStrings(dst, src) ==
    LET n == IF Len(dst.elements) < Len(src.elements)
             THEN Len(dst.elements) ELSE Len(src.elements)
    IN  [dst EXCEPT !.elements =
            [i \in 1..Len(dst.elements) |->
                IF i <= n THEN src.elements[i] ELSE dst.elements[i]]]

\* sort.Strings, by insertion.
RECURSIVE InsertString(_, _)
InsertString(sorted, name) ==
    IF sorted = <<>> THEN <<name>>
    ELSE IF FieldNameRank(name) <= FieldNameRank(Head(sorted))
         THEN <<name>> \o sorted
         ELSE <<Head(sorted)>> \o InsertString(Tail(sorted), name)

RECURSIVE SortedStrings(_)
SortedStrings(elements) ==
    IF elements = <<>> THEN <<>>
    ELSE InsertString(SortedStrings(Tail(elements)), Head(elements))

SortStrings(slice) == [slice EXCEPT !.elements = SortedStrings(@)]

\* *interpreter.CompositeValue: ForEachFieldName yields fieldNames in order.
InterpreterCompositeValue(fieldNames) ==
    [kind |-> "interpreter.CompositeValue", FieldNames |-> StringSlice(fieldNames)]

\* *interpreter.SimpleCompositeValue with its FieldNames slice.
SimpleCompositeValue(fieldNames) ==
    [kind |-> "interpreter.SimpleCompositeValue",
     FieldNames |-> StringSlice(fieldNames)]

\* The CompositeValue of the storage explorer.
CompositeValue(fields) == [kind |-> "CompositeValue", Fields |-> fields]

RECURSIVE ForEachFieldName(_, _)
ForEachFieldName(fieldNames, fields) ==
    IF fieldNames = <<>> THEN fields
    ELSE ForEachFieldName(Tail(fieldNames), AppendString(fields, Head(fieldNames)))

\* prepareValue: the value returned and the argument as the call leaves it.
prepareValue(value) ==
    IF value.kind = "interpreter.CompositeValue"
    THEN LET fields == ForEachFieldName(
                           value.FieldNames.elements,
                           MakeStrings(0, Len(value.FieldNames.elements)))
         IN  [value |-> CompositeValue(SortStrings(fields).elements),
              argument |-> value]
    ELSE LET fieldNames == value.FieldNames
             fields == CopyStrings(MakeStrings(0, Len(fieldNames.elements)),
                                   fieldNames)
         IN  [value |-> CompositeValue(SortStrings(fields).elements),
              argument |-> value]

\* One call of prepareValue.
PrepareValue ==
    /\ preparePc = "call"
    /\ prepareResult' = prepareValue(prepareInput)
    /\ preparePc' = "returned"
    /\ UNCHANGED prepareInput
    /\ UNCHANGED <<confVars, accVars, funVars, lifeVars, migVars, issueVars>>

(***************************************************************************)
(* Initial states.                                                         *)
(***************************************************************************)
\* The interface being checked and the conformances ForeachDistinct will
\* yield: distinct interface types, the i-th processed having identity i.
ConformanceLists(memberShapes, nestedShapes, kinds) ==
    UNION { { [i \in 1..n |-> InterfaceType(i, ks[i], MembersOf(i, ms[i]),
                                            NestedTypesOf(i, ns[i]))]
              : ms \in [1..n -> ShapeMaps(MemberNames, memberShapes)],
                ns \in [1..n -> ShapeMaps(NestedTypeNames, nestedShapes)],
                ks \in [1..n -> kinds] }
            : n \in 0..MaxConformances }

InitConformance(memberShapes, nestedShapes, kinds) ==
    /\ interfaceType \in
          { InterfaceType(SelfId, "resource", MembersOf(SelfId, ms),
                          NestedTypesOf(SelfId, ns))
            : ms \in ShapeMaps(MemberNames, memberShapes),
              ns \in ShapeMaps(NestedTypeNames, nestedShapes) }
    /\ conformances \in ConformanceLists(memberShapes, nestedShapes, kinds)
    /\ visitPc = "start"
    /\ confIndex = 0
    /\ inheritedMembers = EmptyMap
    /\ inheritedTypes = EmptyMap
    /\ diagnostics = <<>>
    /\ dupCalls = <<>>
    /\ interfaceVisits = NoFurtherVisits

IdleConformance ==
    /\ interfaceType = InterfaceType(SelfId, "resource", EmptyMap, EmptyMap)
    /\ conformances = <<>>
    /\ visitPc = "idle"
    /\ confIndex = 0
    /\ inheritedMembers = EmptyMap
    /\ inheritedTypes = EmptyMap
    /\ diagnostics = <<>>
    /\ dupCalls = <<>>
    /\ interfaceVisits = NoFurtherVisits

InitAccess ==
    /\ accessA \in AccessValues
    /\ accessB \in AccessValues
    /\ accessPc = "call"
    /\ accessResult = Returned(FALSE)

IdleAccess ==
    /\ accessA = PrimitiveAccess("AccessNotSpecified")
    /\ accessB = PrimitiveAccess("AccessNotSpecified")
    /\ accessPc = "idle"
    /\ accessResult = Returned(FALSE)

InitFunctions ==
    /\ functions \in SeqsUpTo(FunctionDeclarations, MaxFunctions)
    /\ containerKind \in {"structure interface", "resource interface"}
    /\ funcIndex = 0
    /\ funcReports = <<>>
    /\ bodyChecks = <<>>
    /\ valueScopeDepth = 0

IdleFunctions ==
    /\ functions = <<>>
    /\ containerKind = "resource interface"
    /\ funcIndex = 0
    /\ funcReports = <<>>
    /\ bodyChecks = <<>>
    /\ valueScopeDepth = 0

InitLifecycle ==
    /\ rootDeclaration \in DeclarationTrees
    /\ checker = NewChecker
    /\ passCalls = <<>>

IdleLifecycle ==
    /\ rootDeclaration = NoDeclaration
    /\ checker = NewChecker
    /\ passCalls = <<>>

InitMigration ==
    /\ addressIterator \in { AddressSliceIterator(addresses)
                             : addresses \in SeqsUpTo(Addresses, MaxAddresses) }
    /\ migratePc = "start"
    /\ capabilityIDs = NilCapabilityIDs
    /\ storage \in [Accounts -> AccountStorages]
    /\ nextCapabilityID = 1
    /\ migrationReports = <<>>
    /\ addressVisits = <<>>

IdleMigration ==
    /\ addressIterator = AddressSliceIterator(<<>>)
    /\ migratePc = "idle"
    /\ capabilityIDs = NilCapabilityIDs
    /\ storage = [a \in Accounts |->
                     AccountStorage(NilStorageMap, NilStorageMap, NilStorageMap)]
    /\ nextCapabilityID = 1
    /\ migrationReports = <<>>
    /\ addressVisits = <<>>

(***************************************************************************)
(* Specifications.                                                         *)
(***************************************************************************)
\* The conformance fold over members; no nested types, kinds all equal.
\* The storage domain of an account: no map, an empty map, a map with a
\* value at the path the capabilities target.
IssueStorageMaps ==
    { NilStorageMap,
      StorageMap(EmptyMap),
      StorageMap([identifier \in StorageIdentifiers |-> StoredValueOfType("T1")]) }

\* The sequences of calls that pass n capabilities at most, each call with
\* one capability at least.
RECURSIVE IssueCallSequences(_)
IssueCallSequences(n) ==
    {<<>>} \cup
    UNION { { <<IssueCall(address, capabilities)>> \o rest
              : address \in Accounts,
                capabilities \in [1..k -> AccountCapabilityValues],
                rest \in IssueCallSequences(n - k) }
            : k \in 1..n }

InitIssue ==
    /\ issueStorage \in [Accounts -> IssueStorageMaps]
    /\ issueCalls \in IssueCallSequences(MaxCapabilities)
    /\ issueIndex = 0
    /\ capabilityIndex = 0
    /\ typedCapabilityMapping = EmptyMap
    /\ untypedCapabilityMapping = EmptyMap
    /\ issuedControllers = <<>>
    /\ issueReports = <<>>
    /\ issueFault = "none"

IdleIssue ==
    /\ issueStorage = [a \in Accounts |-> NilStorageMap]
    /\ issueCalls = <<>>
    /\ issueIndex = 0
    /\ capabilityIndex = 0
    /\ typedCapabilityMapping = EmptyMap
    /\ untypedCapabilityMapping = EmptyMap
    /\ issuedControllers = <<>>
    /\ issueReports = <<>>
    /\ issueFault = "none"

\* The lists of up to MaxFields distinct field names.
FieldNameLists ==
    { names \in UNION { [1..k -> FieldNames] : k \in 0..MaxFields } :
        \A i, j \in 1..Len(names) : names[i] = names[j] => i = j }

InitPrepare ==
    /\ prepareInput \in
          { InterpreterCompositeValue(names) : names \in FieldNameLists }
              \cup { SimpleCompositeValue(names) : names \in FieldNameLists }
    /\ preparePc = "call"
    /\ prepareResult = [kind |-> "none"]

IdlePrepare ==
    /\ prepareInput = [kind |-> "none"]
    /\ preparePc = "idle"
    /\ prepareResult = [kind |-> "none"]

Init ==
    /\ InitConformance(MemberShapes, {}, {"resource"})
    /\ IdleAccess
    /\ IdleFunctions
    /\ IdleLifecycle
    /\ IdleMigration
    /\ IdleIssue
    /\ IdlePrepare

Next ==
    \/ BeginVisit
    \/ CheckInterfaceConformance
    \/ FinishConformances

Spec == Init /\ [][Next]_vars

InitAccessSpec ==
    /\ IdleConformance
    /\ InitAccess
    /\ IdleFunctions
    /\ IdleLifecycle
    /\ IdleMigration
    /\ IdleIssue
    /\ IdlePrepare

NextAccess == Compare

SpecAccess == InitAccessSpec /\ [][NextAccess]_vars

InitFunctionsSpec ==
    /\ IdleConformance
    /\ IdleAccess
    /\ InitFunctions
    /\ IdleLifecycle
    /\ IdleMigration
    /\ IdleIssue
    /\ IdlePrepare

NextFunctions == CheckInterfaceFunction

SpecFunctions == InitFunctionsSpec /\ [][NextFunctions]_vars

\* The three passes over every declaration tree, invoked in any order.
InitLifecycleSpec ==
    /\ IdleConformance
    /\ IdleAccess
    /\ IdleFunctions
    /\ InitLifecycle
    /\ IdleMigration
    /\ IdleIssue
    /\ IdlePrepare

NextLifecycle ==
    \/ CallDeclareInterfaceType
    \/ CallDeclareInterfaceMembers
    \/ CallVisitInterfaceDeclaration

SpecLifecycle == InitLifecycleSpec /\ [][NextLifecycle]_vars

\* Migrate over every address list and every storage.
InitMigrationSpec ==
    /\ IdleConformance
    /\ IdleAccess
    /\ IdleFunctions
    /\ IdleLifecycle
    /\ InitMigration
    /\ IdleIssue
    /\ IdlePrepare

NextMigration ==
    \/ MigrateBegin
    \/ MigrateLinksStep
    \/ MigratePathCapabilitiesStep
    \/ MigrateCommit

SpecMigration == InitMigrationSpec /\ [][NextMigration]_vars

\* The conformance fold over nested types; no members, kinds all equal.
InitNestedSpec ==
    /\ InitConformance({}, NestedTypeShapes, {"resource"})
    /\ IdleAccess
    /\ IdleFunctions
    /\ IdleLifecycle
    /\ IdleMigration
    /\ IdleIssue
    /\ IdlePrepare

SpecNested == InitNestedSpec /\ [][Next]_vars

\* The conformance fold over conformances of either kind, each with or
\* without a function with a default implementation and with or without a
\* nested resource type.
DefaultFunctionShape ==
    [DeclarationKind |-> "function", sig |-> "s1",
     HasImplementation |-> TRUE, HasConditions |-> FALSE]

NestedResourceShape ==
    [compositeKinded |-> TRUE, isInterface |-> FALSE, CompositeKind |-> "resource"]

InitKindsSpec ==
    /\ InitConformance({DefaultFunctionShape}, {NestedResourceShape},
                       CompositeKinds)
    /\ IdleAccess
    /\ IdleFunctions
    /\ IdleLifecycle
    /\ IdleMigration
    /\ IdleIssue
    /\ IdlePrepare

SpecKinds == InitKindsSpec /\ [][Next]_vars

\* An interface with identity base and the conformances ForeachDistinct
\* yields for it, with the identities that follow base: each of them
\* declares both the function f with a default implementation and the
\* nested resource N, or nothing.
DeclaredMembers(id, declares) ==
    MembersOf(id, IF declares THEN [n \in MemberNames |-> DefaultFunctionShape]
                  ELSE EmptyMap)

DeclaredNestedTypes(id, declares) ==
    NestedTypesOf(id, IF declares THEN [n \in NestedTypeNames |-> NestedResourceShape]
                      ELSE EmptyMap)

InterfaceVisitsFrom(base) ==
    UNION { { [interfaceType |->
                  InterfaceType(base, "resource", DeclaredMembers(base, own),
                                DeclaredNestedTypes(base, own)),
               conformances |->
                  [i \in 1..n |->
                      InterfaceType(base + i, "resource",
                                    DeclaredMembers(base + i, declares[i]),
                                    DeclaredNestedTypes(base + i, declares[i]))]]
              : own \in BOOLEAN, declares \in [1..n -> BOOLEAN] }
            : n \in 0..MaxConformances }

\* VisitInterfaceDeclaration on an interface and then on another, nested in
\* it or beside it, with conformances of its own.
InitSiblings ==
    /\ \E first \in InterfaceVisitsFrom(SelfId),
          second \in InterfaceVisitsFrom(MaxConformances + 1) :
          /\ interfaceVisits = [list |-> <<first, second>>, index |-> 1]
          /\ interfaceType = first.interfaceType
          /\ conformances = first.conformances
    /\ visitPc = "start"
    /\ confIndex = 0
    /\ inheritedMembers = EmptyMap
    /\ inheritedTypes = EmptyMap
    /\ diagnostics = <<>>
    /\ dupCalls = <<>>

InitSiblingsSpec ==
    /\ InitSiblings
    /\ IdleAccess
    /\ IdleFunctions
    /\ IdleLifecycle
    /\ IdleMigration
    /\ IdleIssue
    /\ IdlePrepare

NextSiblings ==
    \/ BeginVisit
    \/ CheckInterfaceConformance
    \/ FinishConformances
    \/ VisitNextInterface

SpecSiblings == InitSiblingsSpec /\ [][NextSiblings]_vars

InitIssueSpec ==
    /\ IdleConformance
    /\ IdleAccess
    /\ IdleFunctions
    /\ IdleLifecycle
    /\ IdleMigration
    /\ InitIssue
    /\ IdlePrepare

NextIssue ==
    \/ IssueCapabilityStep
    \/ IssueAccountCapabilitiesReturn

SpecIssue == InitIssueSpec /\ [][NextIssue]_vars

InitPrepareSpec ==
    /\ IdleConformance
    /\ IdleAccess
    /\ IdleFunctions
    /\ IdleLifecycle
    /\ IdleMigration
    /\ IdleIssue
    /\ InitPrepare

NextPrepare == PrepareValue

SpecPrepare == InitPrepareSpec /\ [][NextPrepare]_vars

(***************************************************************************)
(* Vocabulary of the properties of the conformance fold.                   *)
(***************************************************************************)
ConformancesDone == visitPc = "conformancesChecked"

\* The interface being declared and its conformances.
AllInterfaceTypes ==
    {interfaceType} \cup { conformances[i] : i \in 1..Len(conformances) }

\* Two members of the same name have identical signatures.
IdenticalSignatures(x, y) ==
    x.DeclarationKind = y.DeclarationKind /\ x.sig = y.sig

IsBare(m) == ~m.HasImplementation /\ ~m.HasConditions

IsMemberConflict(d) ==
    /\ d.error = "InterfaceMemberConflictError"
    /\ d.MemberKind \in {"function", "field"}

\* The MemberConflict diagnostics about member n of the two interfaces.
ConflictsBetween(i, j, n) ==
    CountSeq(diagnostics,
             LAMBDA d : /\ IsMemberConflict(d)
                        /\ d.MemberName = n
                        /\ {d.InterfaceType, d.ConflictingInterfaceType} = {i, j})

\* The applications of the duplicate-member rule to member n of the two.
CallsBetween(i, j, n) ==
    CountSeq(dupCalls,
             LAMBDA c : /\ c.interfaceMember.Identifier = n
                        /\ {c.interfaceType, c.conflictingInterfaceType} = {i, j})

\* The diagnostics one call of the rule has reported.
ReportsOfCall(c) ==
    CountSeq(diagnostics,
             LAMBDA d : /\ IsMemberConflict(d)
                        /\ d.MemberName = c.interfaceMember.Identifier
                        /\ d.InterfaceType = c.interfaceType
                        /\ d.ConflictingInterfaceType = c.conflictingInterfaceType
                        /\ d.Range = c.range)

\* The pairs of interfaces, the earlier processed first (the interface
\* itself is SelfId = 0), that both declare a member named n.
SameNamedPairs ==
    { <<x, y, n>> \in AllInterfaceTypes \X AllInterfaceTypes \X MemberNames :
        /\ x.id < y.id
        /\ n \in DOMAIN x.Members
        /\ n \in DOMAIN y.Members }

\* x is the interface itself, or the most recently processed conformance
\* before y that declares n.
ComparedPair(x, y, n) ==
    \/ x.id = SelfId
    \/ \A k \in (x.id + 1)..(y.id - 1) : n \notin DOMAIN conformances[k].Members

\* A pair with identical signatures of which at least one has a default
\* implementation.
AmbiguousPair(x, y, n) ==
    /\ IdenticalSignatures(x.Members[n], y.Members[n])
    /\ x.Members[n].HasImplementation \/ y.Members[n].HasImplementation

(***************************************************************************)
(* C1. As claimed: once the conformances of an interface are folded in,    *)
(* every pair of same-named members with identical signatures, taken from  *)
(* the conformances and the interface itself, of which at least one has a  *)
(* default implementation, has exactly one MemberConflict diagnostic.      *)
(***************************************************************************)
C1_OneConflictPerAmbiguousPair ==
    ConformancesDone =>
        \A p \in SameNamedPairs :
            AmbiguousPair(p[1], p[2], p[3])
                => ConflictsBetween(p[1].id, p[2].id, p[3]) = 1

(***************************************************************************)
(* C1, amended. Such a pair has exactly one MemberConflict diagnostic when *)
(* it is the interface's own member with a conformance's member, or a      *)
(* conformance's member with the member of the most recently processed     *)
(* earlier conformance declaring the name; a pair of conformances with     *)
(* another declarer of the name processed between them has none.           *)
(***************************************************************************)
C1_OneConflictPerComparedAmbiguousPair ==
    ConformancesDone =>
        \A p \in SameNamedPairs :
            AmbiguousPair(p[1], p[2], p[3])
                => ConflictsBetween(p[1].id, p[2].id, p[3])
                      = (IF ComparedPair(p[1], p[2], p[3]) THEN 1 ELSE 0)

\* Three conformances declare f alike, the first with a default
\* implementation: two compared pairs and one pair never compared.
C1_Witness ==
    /\ ConformancesDone
    /\ Len(conformances) = 3
    /\ "f" \notin DOMAIN interfaceType.Members
    /\ \A i \in 1..3 : "f" \in DOMAIN conformances[i].Members
    /\ \A i \in 1..3 : conformances[i].Members["f"].sig = "s1"
    /\ \A i \in 1..3 : conformances[i].Members["f"].DeclarationKind = "function"
    /\ conformances[1].Members["f"].HasImplementation
    /\ ConflictsBetween(1, 2, "f") = 1
    /\ ConflictsBetween(1, 3, "f") = 0

(***************************************************************************)
(* C2. As claimed: once the conformances are folded in, the duplicate-     *)
(* member rule has been applied to every pair of same-named members among  *)
(* the conformances and the interface itself.                              *)
(***************************************************************************)
C2_EveryPairChecked ==
    ConformancesDone =>
        \A p \in SameNamedPairs : CallsBetween(p[1].id, p[2].id, p[3]) >= 1

(***************************************************************************)
(* C2, amended. The rule is applied exactly once to every pair             *)
(* {conformance, interface itself} and to every pair of conformances that  *)
(* are consecutive among the conformances declaring the name, whatever the *)
(* processing order; it is not applied to a pair of conformances with      *)
(* another declarer of the name processed between them.                    *)
(***************************************************************************)
C2_EveryComparedPairChecked ==
    ConformancesDone =>
        \A p \in SameNamedPairs :
            CallsBetween(p[1].id, p[2].id, p[3])
                = (IF ComparedPair(p[1], p[2], p[3]) THEN 1 ELSE 0)

\* The interface and three conformances all declare f: five pairs are
\* checked, the pair of the first and the third conformance is not.
C2_Witness ==
    /\ ConformancesDone
    /\ Len(conformances) = 3
    /\ \A x \in AllInterfaceTypes : "f" \in DOMAIN x.Members
    /\ Len(dupCalls) = 5
    /\ CallsBetween(1, 3, "f") = 0
    /\ CallsBetween(0, 3, "f") = 1

(***************************************************************************)
(* C3. Every application of the duplicate-member rule to two members whose *)
(* signatures do not match has reported exactly one member-conflict error, *)
(* whatever the default-implementation and condition flags of the two.     *)
(***************************************************************************)
C3_MismatchReportsOnce ==
    \A i \in 1..Len(dupCalls) :
        ~IdenticalSignatures(dupCalls[i].interfaceMember, dupCalls[i].conflictingMember)
            => ReportsOfCall(dupCalls[i]) = 1

\* The rule was applied to mismatching members that both carry a default
\* implementation and conditions.
C3_Witness ==
    \E i \in 1..Len(dupCalls) :
        /\ ~IdenticalSignatures(dupCalls[i].interfaceMember,
                                dupCalls[i].conflictingMember)
        /\ dupCalls[i].interfaceMember.HasImplementation
        /\ dupCalls[i].interfaceMember.HasConditions
        /\ dupCalls[i].conflictingMember.HasImplementation
        /\ dupCalls[i].conflictingMember.HasConditions
        /\ ReportsOfCall(dupCalls[i]) = 1

(***************************************************************************)
(* C4. Two same-named members with matching signatures, neither with a     *)
(* default implementation nor with conditions, never have a diagnostic:    *)
(* not in the diagnostics reported, in whichever order the conformances    *)
(* are processed, and not from the rule with the two passed either way     *)
(* round.                                                                  *)
(***************************************************************************)
C4_BareDuplicatesAreSilent ==
    \A p \in SameNamedPairs :
        LET x == p[1].Members[p[3]]
            y == p[2].Members[p[3]]
            r == IdentifierRange(SelfId, NoName)
        IN  (IdenticalSignatures(x, y) /\ IsBare(x) /\ IsBare(y))
                => /\ ConflictsBetween(p[1].id, p[2].id, p[3]) = 0
                   /\ checkDuplicateInterfaceMembers(p[1].id, x, p[2].id, y, r) = <<>>
                   /\ checkDuplicateInterfaceMembers(p[2].id, y, p[1].id, x, r) = <<>>

\* The interface and two conformances declare the same bare f: the rule
\* ran three times and nothing was reported.
C4_Witness ==
    /\ ConformancesDone
    /\ Len(conformances) = 2
    /\ \A x \in AllInterfaceTypes :
          /\ "f" \in DOMAIN x.Members
          /\ x.Members["f"].sig = "s2"
          /\ x.Members["f"].DeclarationKind = "function"
          /\ IsBare(x.Members["f"])
    /\ Len(dupCalls) = 3
    /\ diagnostics = <<>>

(***************************************************************************)
(* C5. When the interface conforms to exactly two interfaces that both     *)
(* declare f with identical signatures and a default implementation, and   *)
(* does not declare f itself, checking it yields exactly one MemberConflict*)
(* diagnostic, and its range is the identifier of the interface being      *)
(* declared, not a place in either conformance.                            *)
(***************************************************************************)
C5_Scenario ==
    /\ Len(conformances) = 2
    /\ "f" \notin DOMAIN interfaceType.Members
    /\ "f" \in DOMAIN conformances[1].Members
    /\ "f" \in DOMAIN conformances[2].Members
    /\ IdenticalSignatures(conformances[1].Members["f"], conformances[2].Members["f"])
    /\ conformances[1].Members["f"].HasImplementation
    /\ conformances[2].Members["f"].HasImplementation

C5_DiamondConflictAttributedToDeclaration ==
    (ConformancesDone /\ C5_Scenario) =>
        /\ CountSeq(diagnostics, IsMemberConflict) = 1
        /\ \A i \in 1..Len(diagnostics) :
              IsMemberConflict(diagnostics[i]) =>
                  /\ diagnostics[i].MemberName = "f"
                  /\ diagnostics[i].Range = IdentifierRange(interfaceType.id, NoName)
                  /\ diagnostics[i].Range.declaration \notin {1, 2}

C5_Witness ==
    /\ ConformancesDone
    /\ C5_Scenario
    /\ Len(diagnostics) = 1
    /\ diagnostics[1].Range = IdentifierRange(SelfId, NoName)

(***************************************************************************)
(* Vocabulary of the properties of the access comparison.                  *)
(***************************************************************************)
AccessReturned == accessPc = "returned"

IsPrimitive(a) == a.variant = "PrimitiveAccess"

\* An entitlement access whose EntitlementSet is set.
IsEntitlementSetAccess(a) == a.variant = "EntitlementAccess" /\ a.hasSet

\* The entitlements of an access, by declaration identity.
EntitlementsOf(a) == { a.Elements[i].ptr : i \in 1..Len(a.Elements) }

\* The primitive accesses from least to most permissive.
PermissivenessOrder ==
    <<"AccessNotSpecified", "AccessPrivate", "AccessContract",
      "AccessAccount", "AccessPublic", "AccessPublicSettable">>

Rank(p) == CHOOSE i \in 1..Len(PermissivenessOrder) : PermissivenessOrder[i] = p

E1 == [ptr |-> 1, Identifier |-> "E1"]
E2 == [ptr |-> 2, Identifier |-> "E2"]

(***************************************************************************)
(* C6. An entitlement access over S1 is less permissive than one over S2   *)
(* exactly when every entitlement of S1, by declaration identity, is in    *)
(* S2, whatever the conjunctive/disjunctive tags of the two.               *)
(***************************************************************************)
C6_EntitlementSubsetLaw ==
    (AccessReturned /\ IsEntitlementSetAccess(accessA) /\ IsEntitlementSetAccess(accessB))
        => accessResult = Returned(EntitlementsOf(accessA) \subseteq EntitlementsOf(accessB))

\* {E1} has been found less permissive than {E1, E2}, the tags differing.
C6_Witness ==
    /\ AccessReturned
    /\ accessA = EntitlementAccess(<<E1>>, "Conjunction")
    /\ accessB = EntitlementAccess(<<E1, E2>>, "Disjunction")
    /\ accessResult = Returned(TRUE)
    /\ IsLessPermissiveThan(accessB, accessA) = Returned(FALSE)

(***************************************************************************)
(* C7. An entitlement access, whatever its set and tag, is less permissive *)
(* than a primitive access exactly when the primitive is AccessPublic or   *)
(* AccessPublicSettable.                                                   *)
(***************************************************************************)
C7_EntitlementVsPrimitive ==
    (AccessReturned /\ accessA.variant = "EntitlementAccess" /\ IsPrimitive(accessB))
        => accessResult =
              Returned(accessB.primitive \in {"AccessPublic", "AccessPublicSettable"})

C7_Witness ==
    /\ AccessReturned
    /\ accessA = EntitlementAccess(<<E1, E2>>, "Conjunction")
    /\ accessB = PrimitiveAccess("AccessPublicSettable")
    /\ accessResult = Returned(TRUE)

(***************************************************************************)
(* C8. Between two primitive accesses the comparison is the strict order   *)
(* NotSpecified < Private < Contract < Account < Public < PublicSettable,  *)
(* and exactly one of a < b, b < a, a = b holds.                           *)
(***************************************************************************)
C8_PrimitiveStrictOrder ==
    (AccessReturned /\ IsPrimitive(accessA) /\ IsPrimitive(accessB)) =>
        LET ab == accessResult
            ba == IsLessPermissiveThan(accessB, accessA)
        IN  /\ ab = Returned(Rank(accessA.primitive) < Rank(accessB.primitive))
            /\ ~ba.panicked
            /\ Cardinality({ k \in {"ab", "ba", "eq"} :
                                \/ k = "ab" /\ ab.value
                                \/ k = "ba" /\ ba.value
                                \/ k = "eq" /\ accessA = accessB }) = 1

C8_Witness ==
    /\ AccessReturned
    /\ accessA = PrimitiveAccess("AccessContract")
    /\ accessB = PrimitiveAccess("AccessAccount")
    /\ accessResult = Returned(TRUE)

(***************************************************************************)
(* C9. A primitive access, AccessPublic and AccessPublicSettable included, *)
(* is never less permissive than an entitlement access.                    *)
(***************************************************************************)
C9_PrimitiveVsEntitlement ==
    (AccessReturned /\ IsPrimitive(accessA) /\ accessB.variant = "EntitlementAccess")
        => accessResult = Returned(FALSE)

C9_Witness ==
    /\ AccessReturned
    /\ accessA = PrimitiveAccess("AccessPrivate")
    /\ accessB = EntitlementAccess(<<E1>>, "Conjunction")
    /\ accessResult = Returned(FALSE)

(***************************************************************************)
(* Vocabulary of the properties of checkInterfaceFunctions.                *)
(***************************************************************************)
\* The InvalidImplementation diagnostics placed at function pos.
InvalidImplementationsAt(pos) ==
    CountSeq(funcReports,
             LAMBDA d : d.error = "InvalidImplementationError" /\ d.Pos = pos)

EmptyBodyNoConditions(function) ==
    /\ function.hasBlock
    /\ function.statements = 0
    /\ function.preConditions = 0
    /\ function.postConditions = 0

(***************************************************************************)
(* C10. Every function checked has exactly one InvalidImplementation       *)
(* diagnostic when it has a body with no statements, no pre-conditions and *)
(* no post-conditions, and none when it has no body, a statement, or a     *)
(* pre- or post-condition.                                                 *)
(***************************************************************************)
C10_InvalidImplementationExactlyForEmptyBody ==
    \A pos \in 1..Len(functions) :
        InvalidImplementationsAt(pos) =
            (IF pos <= funcIndex /\ EmptyBodyNoConditions(functions[pos]) THEN 1 ELSE 0)

\* An empty body and a body with a post-condition only have been checked.
C10_Witness ==
    /\ Len(functions) = 2
    /\ funcIndex = 2
    /\ EmptyBodyNoConditions(functions[1])
    /\ functions[2] = [hasBlock |-> TRUE, statements |-> 0,
                       preConditions |-> 0, postConditions |-> 1]
    /\ Len(funcReports) = 1
    /\ funcReports[1].Pos = 1

(***************************************************************************)
(* Vocabulary of the properties of the three passes.                       *)
(***************************************************************************)
PassOrder == <<"declareInterfaceType", "declareInterfaceMembers",
               "VisitInterfaceDeclaration">>

IsPrefix(s, t) == Len(s) <= Len(t) /\ \A i \in 1..Len(s) : s[i] = t[i]

CalledBefore(i) == { passCalls[j] : j \in 1..(i - 1) }

Called(pass) == \E i \in 1..Len(passCalls) : passCalls[i] = pass

\* The passes that must have completed before a pass may be invoked.
PrerequisitesOf(pass) ==
    IF pass = "declareInterfaceType" THEN {}
    ELSE IF pass = "declareInterfaceMembers" THEN {"declareInterfaceType"}
    ELSE {"declareInterfaceType", "declareInterfaceMembers"}

OutOfOrderCall(i) == ~(PrerequisitesOf(passCalls[i]) \subseteq CalledBefore(i))

\* The paths of the interface declarations and of all declarations of a
\* tree, and the declaration at a path.
RECURSIVE InterfacePathsOf(_, _)
InterfacePathsOf(d, path) ==
    {path} \cup UNION { InterfacePathsOf(d.InterfaceDeclarations[k],
                                         InterfacePath(path, k))
                        : k \in 1..Len(d.InterfaceDeclarations) }

RECURSIVE DeclarationAt(_, _)
DeclarationAt(d, path) ==
    IF path = <<>> THEN d
    ELSE IF Head(path) > 0
    THEN DeclarationAt(d.InterfaceDeclarations[Head(path)], Tail(path))
    ELSE d.CompositeDeclarations[0 - Head(path)]

InterfacePaths == InterfacePathsOf(rootDeclaration, RootPath)

CompositePaths ==
    UNION { { CompositePath(p, k)
              : k \in 1..Len(DeclarationAt(rootDeclaration, p).CompositeDeclarations) }
            : p \in InterfacePaths }

TraceHas(step, path) ==
    \E i \in 1..Len(checker.trace) :
        checker.trace[i].step = step /\ checker.trace[i].decl = path

\* The lifecycle state of an interface declaration.
Phase(path) ==
    IF TraceHas("return VisitInterfaceDeclaration", path) THEN "Checked"
    ELSE IF path \notin DOMAIN checker.InterfaceDeclarationTypes THEN "Unseen"
    ELSE IF checker.types[checker.InterfaceDeclarationTypes[path]].membersAssigned
    THEN "MembersDeclared"
    ELSE "TypeDeclared"

PhaseAfter(n) ==
    IF n = 0 THEN "Unseen"
    ELSE IF n = 1 THEN "TypeDeclared"
    ELSE IF n = 2 THEN "MembersDeclared"
    ELSE "Checked"

C12_InOrderNeverFaults ==
    IsPrefix(passCalls, PassOrder) => checker.fault = "none"

\* All three passes ran over a tree with a nested interface that has a
\* nested interface and a nested composite of its own.
C12_Witness ==
    /\ passCalls = PassOrder
    /\ ~Faulted(checker)
    /\ <<1, 1>> \in InterfacePaths
    /\ <<1, -1>> \in CompositePaths
    /\ Phase(<<1, 1>>) = "Checked"

(***************************************************************************)
(* C13. After every pass the type-activation stack and the value-scope     *)
(* stack are as deep as before it, with or without diagnostics or fault,   *)
(* and every nested declaration of one declaration and every function of   *)
(* one declaration is processed at the same depths as its siblings.        *)
(***************************************************************************)
SiblingSteps(e, f) ==
    /\ e.step = f.step
    /\ e.step \in {"declareInterfaceType", "declareCompositeType",
                   "declareInterfaceMembers", "declareCompositeMembersAndValue",
                   "VisitInterfaceDeclaration", "visitCompositeDeclaration",
                   "checkFunction"}
    /\ IF e.step = "checkFunction" THEN e.decl = f.decl
       ELSE /\ Len(e.decl) = Len(f.decl)
            /\ Len(e.decl) > 0
            /\ SubSeq(e.decl, 1, Len(e.decl) - 1) = SubSeq(f.decl, 1, Len(f.decl) - 1)

C13_ScopeDepthsRestored ==
    /\ checker.typeDepth = 0
    /\ checker.valueDepth = 0
    /\ \A i, j \in 1..Len(checker.trace) :
           SiblingSteps(checker.trace[i], checker.trace[j]) =>
               /\ checker.trace[i].typeDepth = checker.trace[j].typeDepth
               /\ checker.trace[i].valueDepth = checker.trace[j].valueDepth

\* All passes ran, a diagnostic was reported, and the top-level declaration
\* has two nested interfaces.
C13_Witness ==
    /\ passCalls = PassOrder
    /\ checker.reports # <<>>
    /\ Len(rootDeclaration.InterfaceDeclarations) = 2
    /\ checker.typeDepth = 0
    /\ checker.valueDepth = 0

(***************************************************************************)
(* Vocabulary of the properties of the nested-type fold.                   *)
(***************************************************************************)
HasCompositeKinded(it, n) ==
    n \in DOMAIN it.NestedTypes /\ it.NestedTypes[n].compositeKinded

HasEarlierCompositeKinded(k, n) ==
    \E j \in 1..(k - 1) : HasCompositeKinded(conformances[j], n)

IsTypeConflict(d) ==
    /\ d.error = "InterfaceMemberConflictError"
    /\ d.MemberKind \notin {"function", "field"}

\* The nested-type conflicts reported for type n of the k-th conformance.
TypeConflictsOf(k, n) ==
    CountSeq(diagnostics,
             LAMBDA d : /\ IsTypeConflict(d)
                        /\ d.ConflictingInterfaceType = conformances[k].id
                        /\ d.MemberName = n)

BoolToNat(b) == IF b THEN 1 ELSE 0

(***************************************************************************)
(* C14. For a composite-kinded nested type n of a processed conformance    *)
(* one conflict is reported if an earlier conformance contributed n and    *)
(* one more if the interface's own nested type n is composite-kinded; a    *)
(* nested type that is not composite-kinded has no conflict and is not     *)
(* recorded as inherited.                                                  *)
(***************************************************************************)
C14_BothNestedTypeChecksRun ==
    /\ \A k \in 1..confIndex, n \in NestedTypeNames :
           TypeConflictsOf(k, n) =
               (IF HasCompositeKinded(conformances[k], n)
                THEN BoolToNat(HasEarlierCompositeKinded(k, n))
                     + BoolToNat(HasCompositeKinded(interfaceType, n))
                ELSE 0)
    /\ \A n \in NestedTypeNames :
           /\ n \in DOMAIN inheritedTypes <=>
                  HasEarlierCompositeKinded(confIndex + 1, n)
           /\ n \in DOMAIN inheritedTypes =>
                  /\ inheritedTypes[n].compositeKinded
                  /\ \E k \in 1..confIndex :
                         /\ HasCompositeKinded(conformances[k], n)
                         /\ inheritedTypes[n] = conformances[k].NestedTypes[n]
                         /\ ~\E j \in (k + 1)..confIndex :
                                HasCompositeKinded(conformances[j], n)

\* Three conformances declare N, the second one not composite-kinded, and
\* the interface declares a composite-kinded N of its own: the first has
\* one conflict, the second none, the third two.
C14_Witness ==
    /\ ConformancesDone
    /\ Len(conformances) = 3
    /\ HasCompositeKinded(interfaceType, "N")
    /\ HasCompositeKinded(conformances[1], "N")
    /\ "N" \in DOMAIN conformances[2].NestedTypes
    /\ ~conformances[2].NestedTypes["N"].compositeKinded
    /\ HasCompositeKinded(conformances[3], "N")
    /\ TypeConflictsOf(1, "N") = 1
    /\ TypeConflictsOf(2, "N") = 0
    /\ TypeConflictsOf(3, "N") = 2
    /\ inheritedTypes["N"] = conformances[3].NestedTypes["N"]

(***************************************************************************)
(* C15. A conformance whose composite kind differs from the interface's    *)
(* has one kind mismatch reported, and its members and nested types are    *)
(* merged and checked like those of a conformance of the right kind, as    *)
(* are those of the conformances after it.                                 *)
(***************************************************************************)
KindMismatches ==
    CountSeq(diagnostics, LAMBDA d : d.error = "CompositeKindMismatchError")

Mismatching(k) == conformances[k].CompositeKind # interfaceType.CompositeKind

RECURSIVE CountWhere(_, _)
CountWhere(n, S) ==
    IF n = 0 THEN 0 ELSE CountWhere(n - 1, S) + BoolToNat(n \in S)

\* The member conflicts reported for member n of the k-th conformance.
MemberConflictsOf(k, n) ==
    CountSeq(diagnostics,
             LAMBDA d : /\ IsMemberConflict(d)
                        /\ d.MemberName = n
                        /\ \/ d.InterfaceType = conformances[k].id
                           \/ /\ d.InterfaceType = interfaceType.id
                              /\ d.ConflictingInterfaceType = conformances[k].id)

HasEarlierMember(k, n) ==
    \E j \in 1..(k - 1) : n \in DOMAIN conformances[j].Members

C15_KindMismatchDoesNotStopTheCheck ==
    /\ KindMismatches =
           CountWhere(confIndex, { k \in 1..confIndex : Mismatching(k) })
    /\ \A k \in 1..confIndex :
           /\ \A n \in MemberNames :
                  MemberConflictsOf(k, n) =
                      (IF n \in DOMAIN conformances[k].Members
                       THEN BoolToNat(HasEarlierMember(k, n))
                            + BoolToNat(n \in DOMAIN interfaceType.Members)
                       ELSE 0)
           /\ \A n \in NestedTypeNames :
                  TypeConflictsOf(k, n) =
                      (IF HasCompositeKinded(conformances[k], n)
                       THEN BoolToNat(HasEarlierCompositeKinded(k, n))
                            + BoolToNat(HasCompositeKinded(interfaceType, n))
                       ELSE 0)
    /\ confIndex > 0 =>
           /\ \A n \in DOMAIN conformances[confIndex].Members :
                  /\ n \in DOMAIN inheritedMembers
                  /\ inheritedMembers[n] = conformances[confIndex].Members[n]
           /\ \A n \in DOMAIN conformances[confIndex].NestedTypes :
                  /\ n \in DOMAIN inheritedTypes
                  /\ inheritedTypes[n] = conformances[confIndex].NestedTypes[n]

\* A structure interface and then a resource interface, both declaring f
\* and N, are conformances of a resource interface declaring f and N: the
\* mismatch of the first is reported, and so are its two conflicts with
\* the interface and the four conflicts of the second.
C15_Witness ==
    /\ ConformancesDone
    /\ Len(conformances) = 2
    /\ Mismatching(1)
    /\ ~Mismatching(2)
    /\ KindMismatches = 1
    /\ MemberConflictsOf(1, "f") = 1
    /\ TypeConflictsOf(1, "N") = 1
    /\ MemberConflictsOf(2, "f") = 2
    /\ TypeConflictsOf(2, "N") = 2
    /\ Len(diagnostics) = 7

(***************************************************************************)
(* C16, as stated. In the check pass of a declaration the nested type      *)
(* scope is re-entered before the conformance checks and the check of the  *)
(* field access modifiers.                                                 *)
(***************************************************************************)
StepIndices(step, path) ==
    { i \in 1..Len(checker.trace) :
        checker.trace[i].step = step /\ checker.trace[i].decl = path }

\* Every occurrence of step a at a declaration precedes every one of b.
Precedes(a, b, path) ==
    \A i \in StepIndices(a, path), j \in StepIndices(b, path) : i < j

VisitedPaths ==
    { p \in InterfacePaths : TraceHas("return VisitInterfaceDeclaration", p) }

C16_ScopeReenteredFirst ==
    \A p \in VisitedPaths :
        /\ Precedes("typeActivations.Enter", "checkInterfaceConformance", p)
        /\ Precedes("typeActivations.Enter", "checkFieldsAccessModifier", p)

(***************************************************************************)
(* C16, amended. The check pass of a declaration runs, in this order: the  *)
(* conformance check of every explicit conformance, the check of the field *)
(* access modifiers, the re-entry of the nested type scope, the            *)
(* initializers, the special-function checks, the function checker, the    *)
(* resource-field nesting check, the destructor check, and last the        *)
(* nested declarations, every nested interface before any nested           *)
(* composite.                                                              *)
(***************************************************************************)
VisitStepOrder ==
    <<"checkInterfaceConformance", "checkFieldsAccessModifier",
      "typeActivations.Enter", "checkInitializers",
      "checkUnknownSpecialFunctions",
      "checkSpecialFunctionDefaultImplementation",
      "checkInterfaceFunctions", "checkFunction",
      "checkResourceFieldNesting", "checkDestructors">>

NestedVisits(path, step, interface) ==
    { i \in 1..Len(checker.trace) :
        /\ checker.trace[i].step = step
        /\ Len(checker.trace[i].decl) = Len(path) + 1
        /\ SubSeq(checker.trace[i].decl, 1, Len(path)) = path
        /\ (checker.trace[i].decl[Len(path) + 1] > 0) = interface }

C16_CheckOrder ==
    \A p \in VisitedPaths :
        /\ \A k \in 1..Len(VisitStepOrder) : StepIndices(VisitStepOrder[k], p) # {}
        /\ Cardinality(StepIndices("checkInterfaceConformance", p)) =
               Len(DeclarationAt(rootDeclaration, p).Conformances)
        /\ \A k \in 1..(Len(VisitStepOrder) - 1) :
               Precedes(VisitStepOrder[k], VisitStepOrder[k + 1], p)
        /\ \A i \in StepIndices("checkDestructors", p),
              j \in NestedVisits(p, "VisitInterfaceDeclaration", TRUE) : i < j
        /\ \A i \in NestedVisits(p, "return VisitInterfaceDeclaration", TRUE),
              j \in NestedVisits(p, "visitCompositeDeclaration", FALSE) : i < j
        /\ Cardinality(NestedVisits(p, "return VisitInterfaceDeclaration", TRUE)) =
               Len(DeclarationAt(rootDeclaration, p).InterfaceDeclarations)
        /\ Cardinality(NestedVisits(p, "return visitCompositeDeclaration", FALSE)) =
               Len(DeclarationAt(rootDeclaration, p).CompositeDeclarations)

\* A declaration with two nested interfaces and a nested composite has been
\* checked.
C16_Witness ==
    /\ passCalls = PassOrder
    /\ RootPath \in VisitedPaths
    /\ Len(rootDeclaration.InterfaceDeclarations) = 2
    /\ Len(rootDeclaration.CompositeDeclarations) = 1

(***************************************************************************)
(* C17. When declareInterfaceMembers has returned, the members of the type *)
(* of the declaration, of every interface nested in it and of every        *)
(* composite nested in it, at every depth, have been assigned.             *)
(***************************************************************************)
C17_MembersDeclaredAtEveryDepth ==
    (Called("declareInterfaceMembers") /\ ~Faulted(checker)) =>
        /\ InterfacePaths \cup CompositePaths \subseteq DOMAIN checker.types
        /\ \A p \in InterfacePaths \cup CompositePaths :
               /\ checker.types[p].membersAssigned
               /\ checker.types[p].Members =
                      DeclarationAt(rootDeclaration, p).Members

\* Members were declared for a chain of three interface declarations, the
\* innermost with a nested composite.
C17_Witness ==
    /\ passCalls = <<"declareInterfaceType", "declareInterfaceMembers">>
    /\ ~Faulted(checker)
    /\ <<1, 1>> \in InterfacePaths
    /\ <<1, 1, -1>> \in CompositePaths
    /\ checker.types[<<1, 1, -1>>].membersAssigned

(***************************************************************************)
(* C18. declareInterfaceType reports InvalidInterfaceDeclaration for a     *)
(* declaration exactly when its kind does not support interfaces, and in   *)
(* either case records the type in the elaboration in both directions and  *)
(* declares a type for every nested declaration; the member map of the     *)
(* type stays empty until declareInterfaceMembers runs.                    *)
(***************************************************************************)
InvalidInterfaceDeclarationsAt(path) ==
    CountSeq(checker.reports,
             LAMBDA r : /\ r.error = "InvalidInterfaceDeclarationError"
                        /\ r.Range = IdentifierRange(path, NoName))

C18_InvalidKindReportedAndTypeDeclared ==
    Called("declareInterfaceType") =>
        \A p \in InterfacePaths :
            LET d == DeclarationAt(rootDeclaration, p)
            IN /\ InvalidInterfaceDeclarationsAt(p) =
                      (IF d.CompositeKind \in {"structure", "resource", "contract"}
                       THEN 0 ELSE 1)
               /\ p \in DOMAIN checker.InterfaceDeclarationTypes
               /\ checker.InterfaceDeclarationTypes[p] \in DOMAIN checker.types
               /\ checker.InterfaceTypeDeclarations[
                      checker.InterfaceDeclarationTypes[p]] = p
               /\ DOMAIN checker.types[p].NestedTypes =
                      { k : k \in 1..Len(d.InterfaceDeclarations) }
                      \cup { 0 - k : k \in 1..Len(d.CompositeDeclarations) }
               /\ \A n \in DOMAIN checker.types[p].NestedTypes :
                      checker.types[p].NestedTypes[n] \in DOMAIN checker.types
               /\ ~Called("declareInterfaceMembers") =>
                      checker.types[p].Members = {}

\* The type pass has run over an enum interface with a nested interface
\* and a nested composite, and the member pass has not run.
C18_Witness ==
    /\ passCalls = <<"declareInterfaceType">>
    /\ rootDeclaration.CompositeKind = "enum"
    /\ Len(rootDeclaration.InterfaceDeclarations) = 1
    /\ Len(rootDeclaration.CompositeDeclarations) = 1
    /\ InvalidInterfaceDeclarationsAt(RootPath) = 1
    /\ checker.types[RootPath].Members = {}

(***************************************************************************)
(* C19, as stated. The comparison of any two Access values, an             *)
(* entitlement access with an unset entitlement set included, returns a    *)
(* boolean and raises no error.                                            *)
(***************************************************************************)
C19_ComparisonIsTotal ==
    AccessReturned =>
        /\ ~accessResult.panicked
        /\ accessResult.value \in BOOLEAN

(***************************************************************************)
(* Vocabulary of the properties of the migration.                          *)
(***************************************************************************)
MigrationAtCommit == migratePc \in {"commit", "returned"}

VisitedIn(phase, address) ==
    \E i \in 1..Len(addressVisits) :
        addressVisits[i] = [phase |-> phase, address |-> address]

(***************************************************************************)
(* C20, as stated. When Migrate commits, every account address of the      *)
(* iterator's address list has been passed to the link migration and to    *)
(* the path-capability migration.                                          *)
(***************************************************************************)
C20_EveryAddressMigrated ==
    MigrationAtCommit =>
        \A i \in 1..Len(addressIterator.Addresses) :
            addressIterator.Addresses[i] # ZeroAddress =>
                /\ VisitedIn("links", addressIterator.Addresses[i])
                /\ VisitedIn("pathCapabilities", addressIterator.Addresses[i])

BodyChecksOf(pos) ==
    { i \in 1..Len(bodyChecks) : bodyChecks[i].function = pos }

(***************************************************************************)
(* C23. The body checker has been called exactly once for every function   *)
(* the loop has passed and not yet for the others, and in every call       *)
(* mustExit and checkResourceLoss are equal, both true exactly when the    *)
(* function has a block with at least one statement.                       *)
(***************************************************************************)
C23_BodyCheckedOnceWithBothOptions ==
    \A pos \in 1..Len(functions) :
        /\ Cardinality(BodyChecksOf(pos)) = (IF pos <= funcIndex THEN 1 ELSE 0)
        /\ \A i \in BodyChecksOf(pos) :
              LET options == bodyChecks[i].options
                  hasStatements == functions[pos].hasBlock /\ functions[pos].statements > 0
              IN  /\ options.mustExit = options.checkResourceLoss
                  /\ options.mustExit = hasStatements

\* A function without a block has been checked with both options false,
\* then one whose block holds a statement and a pre-condition with both true.
C23_Witness ==
    /\ Len(functions) = 2
    /\ funcIndex = 2
    /\ Len(bodyChecks) = 2
    /\ ~functions[1].hasBlock
    /\ functions[2] = [hasBlock |-> TRUE, statements |-> 1,
                       preConditions |-> 1, postConditions |-> 0]
    /\ ~bodyChecks[1].options.mustExit
    /\ ~bodyChecks[1].options.checkResourceLoss
    /\ bodyChecks[2].options.mustExit
    /\ bodyChecks[2].options.checkResourceLoss

\* The conformances among the first k that declare member n.
DeclarersUpTo(k, n) ==
    { j \in 1..k : n \in DOMAIN conformances[j].Members }

\* The one processed last among them.
LastDeclarerUpTo(k, n) ==
    CHOOSE j \in DeclarersUpTo(k, n) : \A i \in DeclarersUpTo(k, n) : i <= j

\* The calls of the rule that compare a conformance's member with the
\* member recorded in inheritedMembers.
InheritedComparisons ==
    { i \in 1..Len(dupCalls) : dupCalls[i].interfaceType # SelfId }

(***************************************************************************)
(* C22. The last conformance processed wins: inheritedMembers holds, for   *)
(* every name declared by a processed conformance, the member of the one   *)
(* processed last and nothing else; and every comparison of a              *)
(* conformance's member with the recorded one was made with the entry as   *)
(* it stood before that conformance overwrote it, the member of the last   *)
(* earlier conformance declaring the name.                                 *)
(***************************************************************************)
C22_LastWriterWins ==
    /\ DOMAIN inheritedMembers =
          { n \in MemberNames : DeclarersUpTo(confIndex, n) # {} }
    /\ \A n \in DOMAIN inheritedMembers :
          inheritedMembers[n] = conformances[LastDeclarerUpTo(confIndex, n)].Members[n]
    /\ \A i \in InheritedComparisons :
          LET k == dupCalls[i].interfaceType
              n == dupCalls[i].interfaceMember.Identifier
          IN  /\ k \in 1..confIndex
              /\ DeclarersUpTo(k - 1, n) # {}
              /\ dupCalls[i].conflictingInterfaceType = LastDeclarerUpTo(k - 1, n)
              /\ dupCalls[i].conflictingMember =
                    conformances[LastDeclarerUpTo(k - 1, n)].Members[n]

\* Three conformances declare f with different members: the third was
\* compared with the second, not the first, and is the one recorded.
C22_Witness ==
    /\ ConformancesDone
    /\ Len(conformances) = 3
    /\ \A k \in 1..3 : "f" \in DOMAIN conformances[k].Members
    /\ conformances[1].Members["f"].HasImplementation
           # conformances[2].Members["f"].HasImplementation
    /\ inheritedMembers["f"] = conformances[3].Members["f"]
    /\ \E i \in InheritedComparisons :
          /\ dupCalls[i].interfaceType = 3
          /\ dupCalls[i].conflictingInterfaceType = 2
    /\ ~\E i \in InheritedComparisons :
          /\ dupCalls[i].interfaceType = 3
          /\ dupCalls[i].conflictingInterfaceType = 1

\* The accumulator before the first conformance: the two maps created empty
\* and nothing reported.
NewConformanceAccumulator ==
    [inheritedMembers |-> EmptyMap, inheritedTypes |-> EmptyMap,
     diags |-> <<>>, calls |-> <<>>]

\* The ForeachDistinct loop over a whole conformance list.
RECURSIVE ForeachDistinctConformance(_, _, _)
ForeachDistinctConformance(it, list, acc) ==
    IF list = <<>> THEN acc
    ELSE ForeachDistinctConformance(it, Tail(list),
                                    checkInterfaceConformance(it, Head(list), acc))

\* The conformance list in every processing order.
ProcessingOrders(list) ==
    { [i \in 1..Len(list) |-> list[p[i]]] : p \in Permutations(1..Len(list)) }

HasMemberConflict(diags) ==
    \E i \in 1..Len(diags) : IsMemberConflict(diags[i])

(***************************************************************************)
(* C27. Once the conformances are folded in, the diagnostics are those of  *)
(* the loop over the list as given, and whether a member conflict is among *)
(* them is the same as for the loop over the list in any other order.      *)
(***************************************************************************)
C27_ConflictExistenceIsOrderIndependent ==
    ConformancesDone =>
        /\ ForeachDistinctConformance(interfaceType, conformances,
                                      NewConformanceAccumulator).diags = diagnostics
        /\ \A order \in ProcessingOrders(conformances) :
              HasMemberConflict(
                  ForeachDistinctConformance(interfaceType, order,
                                             NewConformanceAccumulator).diags)
                  = HasMemberConflict(diagnostics)

\* Three conformances declare f with one signature, the first alone with a
\* default implementation: one conflict as given, two when the first is
\* processed second.
C27_Witness ==
    /\ ConformancesDone
    /\ Len(conformances) = 3
    /\ "f" \notin DOMAIN interfaceType.Members
    /\ \A k \in 1..3 : "f" \in DOMAIN conformances[k].Members
    /\ CountSeq(diagnostics, IsMemberConflict) = 1
    /\ \E order \in ProcessingOrders(conformances) :
          CountSeq(ForeachDistinctConformance(interfaceType, order,
                                              NewConformanceAccumulator).diags,
                   IsMemberConflict) = 2

\* The positions in addressVisits of the calls made in a phase.
VisitsOf(phase) ==
    { i \in 1..Len(addressVisits) : addressVisits[i].phase = phase }

\* The accounts a phase has visited.
AccountsVisitedIn(phase) ==
    { addressVisits[i].address : i \in VisitsOf(phase) }

ReportsOf(kind) ==
    { i \in 1..Len(migrationReports) : migrationReports[i].report = kind }

\* The stored value of an account's storage domain under an identifier.
StoredValue(address, identifier) ==
    storage[address].storage.entries[identifier]

StoredIdentifiers(address) ==
    IF storage[address].storage.exists
    THEN DOMAIN storage[address].storage.entries
    ELSE {}

NewMigrationReports ==
    SubSeq(migrationReports', Len(migrationReports) + 1, Len(migrationReports'))

\* What one call of migratePathCapabilitiesInAccount may do to the value
\* stored under an identifier and report for it.
PathCapabilityOutcome(address, identifier) ==
    LET old == storage[address].storage.entries[identifier]
        new == storage'[address].storage.entries[identifier]
        addressPath == AddressPath(old.Address, old.Path)
        missing == CountSeq(NewMigrationReports,
                       LAMBDA r : r = MissingCapabilityID(address, addressPath))
        migrated == CountSeq(NewMigrationReports,
                       LAMBDA r : r = MigratedPathCapability(address, addressPath))
    IN  IF old.kind # "PathCapabilityValue"
        THEN new = old
        ELSE IF addressPath \notin DOMAIN capabilityIDs.entries
             THEN new = old /\ missing = 1 /\ migrated = 0
             ELSE /\ new = [kind |-> "IDCapabilityValue",
                            ID |-> capabilityIDs.entries[addressPath],
                            Address |-> old.Address,
                            BorrowType |-> old.BorrowType,
                            Path |-> NoPath]
                  /\ missing = 0
                  /\ migrated = 1

\* One iteration of the path-capability loop on an account.
PathCapabilityStepOn(address) ==
    /\ migratePc = "pathCapabilities"
    /\ NextAddress(addressIterator).address = address
    /\ address # ZeroAddress

(***************************************************************************)
(* C25. A step of the path-capability phase on an account leaves every     *)
(* stored path capability of the account in exactly one of two ways: with  *)
(* no capability ID recorded for its address path, unchanged and with one  *)
(* MissingCapabilityID report; otherwise replaced by an ID capability with *)
(* the recorded ID and the old address and borrow type, with one           *)
(* MigratedPathCapability report.  It makes no other report, changes no    *)
(* other stored value of the account and nothing in any other account or   *)
(* domain.                                                                 *)
(***************************************************************************)
C25_PathCapabilityOutcomes ==
    [][ \A address \in Accounts :
          PathCapabilityStepOn(address) =>
            /\ \A other \in Accounts \ {address} : storage'[other] = storage[other]
            /\ storage'[address].public = storage[address].public
            /\ storage'[address].private = storage[address].private
            /\ storage'[address].storage.exists = storage[address].storage.exists
            /\ DOMAIN storage'[address].storage.entries =
                  DOMAIN storage[address].storage.entries
            /\ \A k \in DOMAIN storage[address].storage.entries :
                  PathCapabilityOutcome(address, k)
            /\ Len(NewMigrationReports) =
                  Cardinality({ k \in DOMAIN storage[address].storage.entries :
                      storage[address].storage.entries[k].kind = "PathCapabilityValue" })
      ]_vars

\* Both outcomes have happened in one run: an account keeps its path
\* capability to the private link that account 2 does not have, another
\* holds an ID capability borrowing &T1.
C25_Witness ==
    /\ migratePc = "commit"
    /\ ReportsOf("MissingCapabilityID") # {}
    /\ ReportsOf("MigratedPathCapability") # {}
    /\ \E a \in Accounts :
          /\ "p" \in StoredIdentifiers(a)
          /\ StoredValue(a, "p") = PathCapabilityValue(2, PathValue("private", "p"), "&T2")
    /\ \E a \in Accounts :
          /\ "p" \in StoredIdentifiers(a)
          /\ StoredValue(a, "p").kind = "IDCapabilityValue"
          /\ StoredValue(a, "p").BorrowType = "&T1"

\* The interfaces of one call of VisitInterfaceDeclaration: the interface
\* checked and its conformances.
InterfacesOfVisit(v) ==
    {v.interfaceType.id} \cup { v.conformances[i].id : i \in 1..Len(v.conformances) }

\* What the call on v reports when it is the only call made.
DiagnosticsOfVisitAlone(v) ==
    ForeachDistinctConformance(v.interfaceType, v.conformances,
                               NewConformanceAccumulator).diags

RECURSIVE DiagnosticsOfVisitsAlone(_)
DiagnosticsOfVisitsAlone(list) ==
    IF list = <<>> THEN <<>>
    ELSE DiagnosticsOfVisitAlone(Head(list)) \o DiagnosticsOfVisitsAlone(Tail(list))

AllVisitsDone ==
    /\ visitPc = "conformancesChecked"
    /\ interfaceVisits.index = Len(interfaceVisits.list)

(***************************************************************************)
(* C24. Every call of VisitInterfaceDeclaration starts its conformance     *)
(* loop with both maps empty; while it runs the maps hold members and      *)
(* nested types of its own interface's conformances only; every conflict   *)
(* reported names two interfaces of one and the same call; and when the    *)
(* calls are over the diagnostics are those each call reports when made    *)
(* alone, one call after the other.                                        *)
(***************************************************************************)
C24_MapsAreLocalToOneVisit ==
    /\ (visitPc = "conformances" /\ confIndex = 0)
           => inheritedMembers = EmptyMap /\ inheritedTypes = EmptyMap
    /\ visitPc \in {"conformances", "conformancesChecked"}
           => /\ \A n \in DOMAIN inheritedMembers :
                    \E k \in 1..confIndex :
                        inheritedMembers[n].ContainerType = conformances[k].id
              /\ \A n \in DOMAIN inheritedTypes :
                    \E k \in 1..confIndex :
                        inheritedTypes[n].container = conformances[k].id
    /\ \A i \in 1..Len(diagnostics) :
          diagnostics[i].error = "InterfaceMemberConflictError"
              => \E j \in 1..Len(interfaceVisits.list) :
                    {diagnostics[i].InterfaceType,
                     diagnostics[i].ConflictingInterfaceType}
                        \subseteq InterfacesOfVisit(interfaceVisits.list[j])
    /\ AllVisitsDone => diagnostics = DiagnosticsOfVisitsAlone(interfaceVisits.list)

\* The first interface inherited f and N from its one conformance; the
\* second, checked after it, inherits f and N from a conformance of its
\* own and declares neither: nothing is reported.
C24_Witness ==
    /\ AllVisitsDone
    /\ Len(interfaceVisits.list) = 2
    /\ Len(interfaceVisits.list[1].conformances) = 1
    /\ "f" \in DOMAIN interfaceVisits.list[1].conformances[1].Members
    /\ "N" \in DOMAIN interfaceVisits.list[1].conformances[1].NestedTypes
    /\ interfaceType = interfaceVisits.list[2].interfaceType
    /\ Len(conformances) = 1
    /\ "f" \in DOMAIN conformances[1].Members
    /\ "N" \in DOMAIN conformances[1].NestedTypes
    /\ "f" \notin DOMAIN interfaceType.Members
    /\ inheritedMembers["f"].ContainerType = conformances[1].id
    /\ diagnostics = <<>>

\* The storage domain of the account holds no value under the identifier:
\* the map has no such key, or the account has no storage-domain map.
NoValueAtTarget(address, identifier) ==
    \/ ~issueStorage[address].exists
    \/ identifier \notin DOMAIN issueStorage[address].entries

\* The capability the next iteration of the loop is on.
CurrentIssueCall == issueCalls[issueIndex + 1]
CurrentCapability == CurrentIssueCall.capabilities[capabilityIndex + 1]

IterationPending ==
    /\ IssueRunning
    /\ capabilityIndex < Len(CurrentIssueCall.capabilities)

(***************************************************************************)
(* C26, as stated. An iteration on a capability without a borrow type      *)
(* that is not in the untyped mapping and whose target path holds no value *)
(* in the account's storage domain, the account having no storage-domain   *)
(* map included, reports MissingBorrowType, issues no controller, records  *)
(* nothing in either mapping, and the loop goes on to the next capability. *)
(***************************************************************************)
C26_MissingBorrowTypeReported ==
    [][ ( /\ IterationPending
          /\ CurrentCapability.BorrowType = NoBorrowType
          /\ AddressPath(CurrentIssueCall.address, CurrentCapability.Path)
                 \notin DOMAIN untypedCapabilityMapping
          /\ NoValueAtTarget(CurrentIssueCall.address,
                             CurrentCapability.Path.identifier) )
        => /\ issueReports' =
                 Append(issueReports,
                        MissingBorrowType(
                            CurrentIssueCall.address,
                            AddressPath(CurrentIssueCall.address,
                                        CurrentCapability.Path)))
           /\ issuedControllers' = issuedControllers
           /\ typedCapabilityMapping' = typedCapabilityMapping
           /\ untypedCapabilityMapping' = untypedCapabilityMapping
           /\ issueFault' = "none"
           /\ capabilityIndex' = capabilityIndex + 1
      ]_vars

\* The controllers issued for capabilities with, or without, a borrow type.
ControllersIssued(hasBorrowType) ==
    { i \in 1..Len(issuedControllers) :
        issuedControllers[i].hasBorrowType = hasBorrowType }

IssuedReportsFor(c) ==
    CountSeq(issueReports,
             LAMBDA r : r = IssuedStorageCapabilityController(
                                c.address, c.addressPath, c.borrowType,
                                c.capabilityID))

(***************************************************************************)
(* C29. Over the calls made so far on the shared mappings: no two          *)
(* controllers were issued for one address path and borrow type ID among   *)
(* the capabilities with a borrow type, nor two for one address path among *)
(* those without; every controller issued is recorded under its key in the *)
(* mapping of its kind and reported exactly once, and there are no other   *)
(* IssuedStorageCapabilityController reports; and a call that repeats an   *)
(* earlier call's address and capabilities issues no controller.           *)
(***************************************************************************)
C29_OneControllerPerKey ==
    /\ \A i, j \in ControllersIssued(TRUE) :
          ( /\ issuedControllers[i].addressPath = issuedControllers[j].addressPath
            /\ issuedControllers[i].borrowType = issuedControllers[j].borrowType )
              => i = j
    /\ \A i, j \in ControllersIssued(FALSE) :
          issuedControllers[i].addressPath = issuedControllers[j].addressPath
              => i = j
    /\ \A i \in ControllersIssued(TRUE) :
          LET c == issuedControllers[i]
              key == TypedKey(c.addressPath, c.borrowType)
          IN  /\ key \in DOMAIN typedCapabilityMapping
              /\ typedCapabilityMapping[key] = c.capabilityID
    /\ \A i \in ControllersIssued(FALSE) :
          LET c == issuedControllers[i]
          IN  /\ c.addressPath \in DOMAIN untypedCapabilityMapping
              /\ untypedCapabilityMapping[c.addressPath] =
                    UntypedEntry(c.capabilityID, c.borrowType)
    /\ \A i \in 1..Len(issuedControllers) : IssuedReportsFor(issuedControllers[i]) = 1
    /\ CountSeq(issueReports,
                LAMBDA r : r.report = "IssuedStorageCapabilityController")
          = Len(issuedControllers)
    /\ \A first, second \in 1..Len(issueCalls) :
          (first < second /\ issueCalls[first] = issueCalls[second])
              => \A i \in 1..Len(issuedControllers) :
                    issuedControllers[i].call # second

\* A call on account 1 with a capability without a borrow type has issued
\* a controller borrowing as the stored value's type; the same call made
\* again has issued none; a third call with the same path and that borrow
\* type given has issued a second controller, recorded in the typed
\* mapping.
C29_Witness ==
    /\ issueFault = "none"
    /\ Len(issueCalls) = 3
    /\ issueIndex = 3
    /\ issueCalls[1] = issueCalls[2]
    /\ issueCalls[1].address = 1
    /\ issueCalls[3].address = 1
    /\ issueCalls[1].capabilities[1].BorrowType = NoBorrowType
    /\ issueCalls[3].capabilities[1].BorrowType = "&T1"
    /\ Len(issuedControllers) = 2
    /\ issuedControllers[1].call = 1
    /\ ~issuedControllers[1].hasBorrowType
    /\ issuedControllers[1].borrowType = "&T1"
    /\ issuedControllers[2].call = 3
    /\ issuedControllers[2].hasBorrowType
    /\ DOMAIN typedCapabilityMapping =
          {TypedKey(issuedControllers[2].addressPath, "&T1")}
    /\ DOMAIN untypedCapabilityMapping = {issuedControllers[1].addressPath}

\* All of the given field names, in sorted order.
AllFieldsSorted(fieldNames) ==
    LET names == { fieldNames[i] : i \in 1..Len(fieldNames) }
    IN  SelectSeq(FieldNameOrder, LAMBDA name : name \in names)

(***************************************************************************)
(* C30, as stated. For a SimpleCompositeValue prepareValue returns a        *)
(* CompositeValue whose Fields are all of the value's field names in       *)
(* sorted order, the result it returns for a CompositeValue with the same  *)
(* field names, and the FieldNames slice of the argument is as it was.     *)
(***************************************************************************)
C30_SimpleCompositeFieldsSorted ==
    (preparePc = "returned" /\ prepareInput.kind = "interpreter.SimpleCompositeValue")
        => /\ prepareResult.value =
                 CompositeValue(AllFieldsSorted(prepareInput.FieldNames.elements))
           /\ prepareResult.value =
                 prepareValue(InterpreterCompositeValue(
                                  prepareInput.FieldNames.elements)).value
           /\ prepareResult.argument.FieldNames = prepareInput.FieldNames

====
